---------------------------- MODULE Spec2Model ----------------------------
(***************************************************************************)
(* A model of the DICOM sorting toolkit.                                   *)
(*                                                                         *)
(*   Spec          the parallel pipeline: sort_dicom / copy_directory /    *)
(*                 process_file / copy_dicom_image, the worker pool, the   *)
(*                 shared cancel flag and the three ways a run is started  *)
(*                 (main, SortingThread.run, a direct call of sort_dicom). *)
(*   SpecProgress  the progress expression int((i + 1) / total_files *     *)
(*                 100) of copy_directory, in IEEE-754 double arithmetic.  *)
(*   SpecAnon      anonymize_dicom_tags applied to one data set, over the  *)
(*                 data sets and the option settings.                      *)
(*   SpecWorkers   the workers of a pool anonymizing the objects of a run, *)
(*                 each in its own process.                                *)
(***************************************************************************)
EXTENDS Integers, Sequences, FiniteSets, TLC

\* ------------------------------------------------------------------ bounds

\* The largest number of files os.walk finds under the input directory.
MaxFiles == 2

\* The number of worker processes of the pool (multiprocessing.cpu_count()).
NumWorkers == 2

\* The largest number of files of a run whose progress values are computed.
MaxTotal == 50

\* The number of tags in which an input data set differs from BaseElems.
MaxEdits == 2

\* The number of objects the workers of one run anonymize.
MaxObjects == 2

Files == 1..MaxFiles

Workers == 1..NumWorkers

VARIABLES
  \* --- the run and its inputs
  entry,           \* who started the run: "main", "SortingThread", "sort_dicom"
  pc,              \* position of the driving process
  input_exists,    \* the input directory exists
  output_ok,       \* the output directory exists or os.makedirs can create it
  n_input,         \* the number of files under the input directory
  opts,            \* skip_derived, skip_burned_in, anonymize (or id_map), decompress
  has_callback,    \* progress_callback is not None
  has_flag,        \* cancel_flag is not None
  cancel_value,    \* cancel_flag.value
  \* --- copy_directory
  total_files,     \* len(all_files)
  pool,            \* "none", "open", "terminated"
  next_task,       \* the next element of args_list the pool hands to a worker
  worker,          \* worker -> the file it is processing, 0 when idle
  results,         \* the pool's result queue: (file, success) in completion order
  unit,            \* file -> "pending", "running", "abandoned", or how its
                   \* process_file ended: "raised", "skipped", "unwritten", "written"
  last_unit,            \* the latest process_file to return, in full
  i,               \* results taken from imap_unordered so far
  cur,             \* the (file, success) of the current iteration
  success_count,
  failure_count,
  aggregated,      \* the files counted so far
  progress,        \* the values passed to progress_callback, in order
  summary,         \* "Processing completed. ..." was printed and logged
  cancelled,       \* copy_directory returned from its cancel branch
  raised,          \* an exception left sort_dicom
  finished_emitted, \* SortingThread.finished emissions
  error_emitted,   \* SortingThread.error emissions
  \* --- observations of the run, for the properties
  done_at_cancel,  \* units whose process_file had returned when the flag was set
  picked_after,    \* files a worker picked up after the flag was set
  late_write,      \* one of them wrote its output file
  \* --- the progress expression
  pg_n, pg_k, pg_value,
  \* --- the anonymizer
  an_input,        \* the data set handed to anonymize_dicom_tags
  an_opts,         \* its other arguments
  an_output,       \* what it returned, or that it raised
  an_worker,       \* the worker process that ran it
  an_count,        \* objects anonymized so far in the run
  an_seen,         \* the UID replacements in the objects written so far
  an_missing,      \* process -> its copy of the global set missing_ids
  \* --- the output tree
  cp_objects,      \* input file -> the data set dcmread gives for it
  cp_opts,         \* the options copy_dicom_image is called with
  cp_done,         \* the input files whose copy_dicom_image has returned
  cp_tree,         \* destination path -> the input file saved there last
  \* --- the classifier
  cl_input,        \* the data set handed to the classifier
  cl_output,       \* is_derived_image and has_burned_in_annotation of it
  \* --- the Correlation Table
  tb_lines,        \* the lines of the file handed to read_id_correlation
  tb_next,         \* the line the loop is at
  tb_map,          \* id_map
  tb_log,          \* the warnings logged so far
  \* --- Batch_dcm2bids
  bd_file_exists,  \* studies.tsv exists
  bd_rows,         \* its rows under the header: subject, session, date
  bd_folders,      \* the (subject, date) folders under the input directory
  bd_pc,           \* "idle", or "running" inside process_sessions
  bd_existing,     \* existing_studies
  bd_todo,         \* the folders the loops of process_sessions have yet to visit
  bd_calls,        \* the calls of the converter so far, in order
  bd_runs,         \* the runs of process_sessions that have returned
  \* --- the decompression thread and its GUI
  dt_files,        \* what happens to each file of the input directory
  dt_pc,           \* "loop" or "done"
  dt_processed,    \* processed
  dt_emitted,      \* the signals the thread has emitted, in order
  dt_queue,        \* those the GUI thread has not yet handled
  dt_dialog,       \* self.progress_dialog: "open", "closed" or "none" for None
  dt_boxes,        \* the message boxes of decompression_error that are open
  dt_late          \* the calls of update_progress made with the dialog cleared

pipeVars == <<entry, pc, input_exists, output_ok, n_input, opts, has_callback,
              has_flag, cancel_value, total_files, pool, next_task, worker,
              results, unit, last_unit, i, cur, success_count, failure_count, aggregated,
              progress, summary, cancelled, raised, finished_emitted,
              error_emitted, done_at_cancel, picked_after, late_write>>

pgVars == <<pg_n, pg_k, pg_value>>

anVars == <<an_input, an_opts, an_output, an_worker, an_count, an_seen, an_missing>>

cpVars == <<cp_objects, cp_opts, cp_done, cp_tree>>

clVars == <<cl_input, cl_output>>

tbVars == <<tb_lines, tb_next, tb_map, tb_log>>

bdVars == <<bd_file_exists, bd_rows, bd_folders, bd_pc, bd_existing, bd_todo,
            bd_calls, bd_runs>>

dtVars == <<dt_files, dt_pc, dt_processed, dt_emitted, dt_queue, dt_dialog,
            dt_boxes, dt_late>>

restVars == <<tbVars, bdVars, dtVars>>

vars == <<pipeVars, pgVars, anVars, cpVars, clVars, restVars>>

\* The pipeline leaves the other parts alone.
PipeOnly == UNCHANGED <<pgVars, anVars, cpVars, clVars, restVars>>

\* The shared flag exists and is set.
FlagSet == has_flag /\ cancel_value

\* ------------------------------------------- IEEE-754 double arithmetic
(***************************************************************************)
(* copy_directory computes its progress value as                           *)
(*     int((i + 1) / total_files * 100)                                    *)
(* Python's / is a double division, * a double multiplication, each        *)
(* rounded to nearest-even on a 53-bit significand, and int() truncates.   *)
(* A double is modelled as [e, m]: m the 53 significand bits, most         *)
(* significant first, m[1] = 1, and e the exponent of m[1]; its value is   *)
(* the sum of m[j] * 2^(e - j + 1).                                        *)
(***************************************************************************)

\* The width of a double's significand.
Significand == 53

\* Bit strings are handled in digits of eight bits, most significant first.
DigitBits == 8

RECURSIVE Pow2(_)
Pow2(x) == IF x = 0 THEN 1 ELSE 2 * Pow2(x - 1)

DigitBase == Pow2(DigitBits)

Reverse(s) == [j \in 1..Len(s) |-> s[Len(s) + 1 - j]]

RECURSIVE BitsToInt(_)
BitsToInt(bits) ==
  IF bits = <<>> THEN 0
  ELSE 2 * BitsToInt(SubSeq(bits, 1, Len(bits) - 1)) + bits[Len(bits)]

DigitsToBits(ds) ==
  [j \in 1..(DigitBits * Len(ds)) |->
     (ds[((j - 1) \div DigitBits) + 1]
        \div Pow2(DigitBits - 1 - ((j - 1) % DigitBits))) % 2]

BitsToDigits(bits) ==
  LET pad    == (DigitBits - (Len(bits) % DigitBits)) % DigitBits
      padded == [j \in 1..pad |-> 0] \o bits
  IN  [q \in 1..(Len(padded) \div DigitBits) |->
         BitsToInt(SubSeq(padded, DigitBits * (q - 1) + 1, DigitBits * q))]

\* The bit string without its leading zeros (it holds a 1).
StripZeros(bits) ==
  LET first == CHOOSE j \in 1..Len(bits) :
                 bits[j] = 1 /\ \A q \in 1..(j - 1) : bits[q] = 0
  IN  SubSeq(bits, first, Len(bits))

RECURSIVE LongDiv(_, _, _)
\* `count` digits of the expansion of r / n (0 <= r < n) in base 256, and the
\* remainder left after them.
LongDiv(r, n, count) ==
  IF count = 0 THEN [digits |-> <<>>, rem |-> r]
  ELSE LET rest == LongDiv((DigitBase * r) % n, n, count - 1)
       IN  [digits |-> <<(DigitBase * r) \div n>> \o rest.digits, rem |-> rest.rem]

RECURSIVE LeadingZeros(_, _)
\* The number of zero bits that open the binary expansion of r / n (0 < r < n).
LeadingZeros(r, n) == IF 2 * r >= n THEN 0 ELSE 1 + LeadingZeros(2 * r, n)

\* bits + 1 (most significant first); one bit longer when every bit is 1.
Increment(bits) ==
  LET ones == {j \in 1..Len(bits) : \A q \in j..Len(bits) : bits[q] = 1}
      lowest == Len(bits) - Cardinality(ones)     \* the lowest 0, 0 when none
  IN  IF lowest = 0 THEN <<1>> \o [j \in 1..Len(bits) |-> 0]
      ELSE [j \in 1..Len(bits) |->
              IF j < lowest THEN bits[j] ELSE IF j = lowest THEN 1 ELSE 0]

\* Round the bit string `bits` (most significant first, bits[1] = 1, exponent e
\* of bits[1]) to a double: nearest, ties to even; `sticky` tells whether a
\* non-zero remainder follows the bits given.
RoundToDouble(bits, e, sticky) ==
  IF Len(bits) <= Significand
  THEN [e |-> e, m |-> bits \o [j \in 1..(Significand - Len(bits)) |-> 0]]
  ELSE LET kept  == SubSeq(bits, 1, Significand)
           guard == bits[Significand + 1]
           later == sticky \/ \E j \in (Significand + 2)..Len(bits) : bits[j] = 1
           up    == guard = 1 /\ (later \/ kept[Significand] = 1)
           inc   == Increment(kept)
       IN  IF ~up THEN [e |-> e, m |-> kept]
           ELSE IF Len(inc) > Significand
                THEN [e |-> e + 1, m |-> SubSeq(inc, 1, Significand)]
                ELSE [e |-> e, m |-> inc]

\* The double k / n, for integers 0 < k <= n.
float_div(k, n) ==
  IF k = n THEN RoundToDouble(<<1>>, 0, FALSE)
  ELSE LET z == LeadingZeros(k, n)
           d == LongDiv(k * Pow2(z), n, (Significand \div DigitBits) + 1)
       IN  RoundToDouble(DigitsToBits(d.digits), 0 - (z + 1), d.rem # 0)

RECURSIVE MulDigits(_, _, _)
\* digits * c + carry for a small integer c, least significant digit first.
MulDigits(lsd, c, carry) ==
  IF lsd = <<>>
  THEN IF carry = 0 THEN <<>>
       ELSE <<carry % DigitBase>> \o MulDigits(<<>>, c, carry \div DigitBase)
  ELSE LET t == Head(lsd) * c + carry
       IN  <<t % DigitBase>> \o MulDigits(Tail(lsd), c, t \div DigitBase)

\* The double x * c, for a double x and a small integer c > 0.
float_mul(x, c) ==
  LET p == StripZeros(DigitsToBits(Reverse(MulDigits(Reverse(BitsToDigits(x.m)), c, 0))))
  IN  RoundToDouble(p, (x.e - (Significand - 1)) + (Len(p) - 1), FALSE)

\* int(x) for a double x >= 0 below 2^31: the bits left of the binary point.
int_of_float(x) == IF x.e < 0 THEN 0 ELSE BitsToInt(SubSeq(x.m, 1, x.e + 1))

\* int((i + 1) / total_files * 100) with k = i + 1 and n = total_files.
progress_value(k, n) == int_of_float(float_mul(float_div(k, n), 100))

\* The values copy_directory can pass to progress_callback, computed once.
ProgressTable == [n \in 1..MaxFiles |-> [k \in 1..n |-> progress_value(k, n)]]

\* floor(k / n * 100) in exact arithmetic.
ExactPercent(k, n) == (100 * k) \div n


\* ---------------------------------------------------- the unit of work
(***************************************************************************)
(* What the file system and the file's content decide for one file: the    *)
(* facts process_file and copy_dicom_image branch on.                      *)
(***************************************************************************)
FileFacts ==
  [non_dicom_extension : BOOLEAN,  \* the name ends in .png, .jpeg, .jpg, .gif, .bmp
   read_fails          : BOOLEAN,  \* pydicom.dcmread raises in process_file
   derived             : BOOLEAN,  \* is_derived_image(dataset)
   burned_in           : BOOLEAN,  \* has_burned_in_annotation(dataset)
   reread_fails        : BOOLEAN,  \* pydicom.dcmread raises in copy_dicom_image
   anonymize_raises    : BOOLEAN,  \* anonymize_dicom_tags raises
   decompress_fails    : BOOLEAN,  \* dataset.decompress() raises
   write_fails         : BOOLEAN]  \* os.makedirs or dataset.save_as raises

Options ==
  [skip_derived : BOOLEAN, skip_burned_in : BOOLEAN,
   anonymize : BOOLEAN,   \* anonymize or id_map, the test of copy_dicom_image
   decompress : BOOLEAN]

\* decompress_dataset: the exception of dataset.decompress() is logged and
\* swallowed, the data set is returned either way.
decompress_dataset(facts) ==
  IF facts.decompress_fails THEN {"decompress_error"} ELSE {}

\* A copy_dicom_image whose decompression failure is fatal: the exception of
\* dataset.decompress() leaves the function.
copy_dicom_image_DecompressFatal(facts, o) ==
  IF facts.non_dicom_extension
  THEN [raised |-> FALSE, written |-> FALSE, events |-> {"non_dicom_extension"}]
  ELSE IF facts.reread_fails
  THEN [raised |-> FALSE, written |-> FALSE, events |-> {"reread_error"}]
  ELSE IF o.anonymize /\ facts.anonymize_raises
  THEN [raised |-> TRUE, written |-> FALSE, events |-> {"anonymize_error"}]
  ELSE IF o.decompress /\ facts.decompress_fails
  THEN [raised |-> TRUE, written |-> FALSE, events |-> {"decompress_error"}]
  ELSE IF facts.write_fails
  THEN [raised |-> TRUE, written |-> FALSE, events |-> {"write_error"}]
  ELSE [raised |-> FALSE, written |-> TRUE, events |-> {}]

\* copy_dicom_image: [raised, written, events]; raised when an exception
\* leaves the function.
copy_dicom_image(facts, o) ==
  IF facts.non_dicom_extension
  THEN [raised |-> FALSE, written |-> FALSE, events |-> {"non_dicom_extension"}]
  ELSE IF facts.reread_fails
  THEN [raised |-> FALSE, written |-> FALSE, events |-> {"reread_error"}]
  ELSE IF o.anonymize /\ facts.anonymize_raises
  THEN [raised |-> TRUE, written |-> FALSE, events |-> {"anonymize_error"}]
  ELSE LET ev == IF o.decompress THEN decompress_dataset(facts) ELSE {}
       IN  IF facts.write_fails
           THEN [raised |-> TRUE, written |-> FALSE, events |-> ev \cup {"write_error"}]
           ELSE [raised |-> FALSE, written |-> TRUE, events |-> ev]

\* A process_file whose handler reports success whatever copy_dicom_image did.
process_file_HandlerReturnsTrue(facts, o) ==
  IF facts.read_fails
  THEN [success |-> FALSE, written |-> FALSE, events |-> {"read_error"}]
  ELSE IF o.skip_derived /\ facts.derived
  THEN [success |-> FALSE, written |-> FALSE, events |-> {"skip_derived"}]
  ELSE IF o.skip_burned_in /\ facts.burned_in
  THEN [success |-> FALSE, written |-> FALSE, events |-> {"skip_burned_in"}]
  ELSE LET c == copy_dicom_image(facts, o)
       IN  [success |-> TRUE, written |-> c.written, events |-> c.events]

\* process_file: the (file, success) it returns, with what happened on the way.
process_file(facts, o) ==
  IF facts.read_fails
  THEN [success |-> FALSE, written |-> FALSE, events |-> {"read_error"}]
  ELSE IF o.skip_derived /\ facts.derived
  THEN [success |-> FALSE, written |-> FALSE, events |-> {"skip_derived"}]
  ELSE IF o.skip_burned_in /\ facts.burned_in
  THEN [success |-> FALSE, written |-> FALSE, events |-> {"skip_burned_in"}]
  ELSE LET c == copy_dicom_image(facts, o)
       IN  [success |-> ~c.raised, written |-> c.written, events |-> c.events]

\* What process_file can do with a file under given options, over all the
\* facts of the file.
Outcomes == [o \in Options |-> {process_file(facts, o) : facts \in FileFacts}]

\* How a process_file ended: an exception reached its handler ("raised"), a
\* skip filter returned early ("skipped"), copy_dicom_image returned without
\* writing ("unwritten"), or the object was saved ("written").
Ending(r) ==
  IF r.written THEN "written"
  ELSE IF r.success THEN "unwritten"
  ELSE IF r.events \cap {"skip_derived", "skip_burned_in"} # {} THEN "skipped"
  ELSE "raised"

Ended == {"raised", "skipped", "unwritten", "written"}

\* No current result: before the loop, and between its iterations.
NoResult == [file |-> 0, success |-> FALSE]

NoUnit == [file |-> 0, success |-> FALSE, written |-> FALSE, events |-> {}]

\* ------------------------------------------------------------ the run
\* main calls sort_dicom without progress_callback and cancel_flag;
\* SortingThread.run and a direct caller pass both.
PipeInit ==
  /\ entry \in {"main", "SortingThread", "sort_dicom"}
  /\ pc = "call"
  /\ input_exists \in BOOLEAN
  /\ output_ok \in BOOLEAN
  /\ n_input \in 0..MaxFiles
  /\ (~input_exists => n_input = 0)
  /\ opts \in Options
  /\ has_callback = (entry # "main")
  /\ has_flag = (entry # "main")
  /\ cancel_value = FALSE
  /\ total_files = 0
  /\ pool = "none"
  /\ next_task = 1
  /\ worker = [w \in Workers |-> 0]
  /\ results = <<>>
  /\ unit = [f \in Files |-> "pending"]
  /\ last_unit = NoUnit
  /\ i = 0
  /\ cur = NoResult
  /\ success_count = 0
  /\ failure_count = 0
  /\ aggregated = {}
  /\ progress = <<>>
  /\ summary = FALSE
  /\ cancelled = FALSE
  /\ raised = FALSE
  /\ finished_emitted = 0
  /\ error_emitted = 0
  /\ done_at_cancel = -1
  /\ picked_after = {}
  /\ late_write = FALSE

PipeIdle ==
  /\ entry = "main" /\ pc = "ended" /\ input_exists = FALSE /\ output_ok = FALSE
  /\ n_input = 0
  /\ opts = [skip_derived |-> FALSE, skip_burned_in |-> FALSE,
             anonymize |-> FALSE, decompress |-> FALSE]
  /\ has_callback = FALSE /\ has_flag = FALSE /\ cancel_value = FALSE
  /\ total_files = 0 /\ pool = "none" /\ next_task = 1
  /\ worker = [w \in Workers |-> 0] /\ results = <<>>
  /\ unit = [f \in Files |-> "pending"] /\ last_unit = NoUnit /\ i = 0 /\ cur = NoResult
  /\ success_count = 0 /\ failure_count = 0 /\ aggregated = {}
  /\ progress = <<>> /\ summary = FALSE /\ cancelled = FALSE /\ raised = FALSE
  /\ finished_emitted = 0 /\ error_emitted = 0
  /\ done_at_cancel = -1 /\ picked_after = {} /\ late_write = FALSE

PgIdle == pg_n = 0 /\ pg_k = 0 /\ pg_value = 0

AnIdle ==
  /\ an_input = <<>> /\ an_opts = <<>> /\ an_output = <<>>
  /\ an_worker = 0 /\ an_count = 0 /\ an_seen = {} /\ an_missing = <<>>

CpIdle == cp_objects = <<>> /\ cp_opts = <<>> /\ cp_done = {} /\ cp_tree = <<>>

ClIdle == cl_input = <<>> /\ cl_output = <<>>

TbIdle == tb_lines = <<>> /\ tb_next = 0 /\ tb_map = <<>> /\ tb_log = <<>>

BdIdle ==
  /\ bd_file_exists = FALSE /\ bd_rows = <<>> /\ bd_folders = {}
  /\ bd_pc = "idle" /\ bd_existing = <<>> /\ bd_todo = <<>>
  /\ bd_calls = <<>> /\ bd_runs = 0

DtIdle ==
  /\ dt_files = <<>> /\ dt_pc = "done" /\ dt_processed = 0
  /\ dt_emitted = <<>> /\ dt_queue = <<>> /\ dt_dialog = "none"
  /\ dt_boxes = 0 /\ dt_late = 0

RestIdle == TbIdle /\ BdIdle /\ DtIdle

\* The parameters sort_dicom has no default for.
sort_dicom_required ==
  {"input_dir", "output_dir", "anonymize", "id_map", "decompress",
   "strict_anonymize", "skip_derived", "skip_burned_in", "id_from_name",
   "anonymize_birth_date", "anonymize_acquisition_date", "preserve_private_tags"}

\* The parameters SortingThread.run binds: eight positional arguments, which
\* take the first eight parameters of sort_dicom, and two keywords.
SortingThread_supplied ==
  {"input_dir", "output_dir", "anonymize", "id_map", "decompress",
   "strict_anonymize", "skip_derived", "skip_burned_in",
   "progress_callback", "cancel_flag"}

\* SortingThread.run: binding the call of sort_dicom raises TypeError, since
\* required parameters are left unbound; run catches it and emits error. The
\* statements after the call (the flag test and finished.emit()) are not
\* reached.
SortingThread_run ==
  /\ pc = "call"
  /\ entry = "SortingThread"
  /\ ~(sort_dicom_required \subseteq SortingThread_supplied)
  /\ pc' = "ended"
  /\ error_emitted' = error_emitted + 1
  /\ UNCHANGED <<entry, input_exists, output_ok, n_input, opts, has_callback,
                 has_flag, cancel_value, total_files, pool, next_task, worker,
                 results, unit, last_unit, i, cur, success_count, failure_count,
                 aggregated, progress, summary, cancelled, raised,
                 finished_emitted, done_at_cancel, picked_after, late_write>>
  /\ PipeOnly

\* sort_dicom up to the pool of copy_directory: os.makedirs of a missing
\* output directory (its exception leaves sort_dicom), os.walk of the input
\* directory (a missing directory yields no file and no error), the pool.
sort_dicom ==
  /\ pc = "call"
  /\ entry \in {"main", "sort_dicom"}
  /\ IF ~output_ok
     THEN /\ raised' = TRUE
          /\ pc' = "ended"
          /\ UNCHANGED <<total_files, pool>>
     ELSE /\ total_files' = IF input_exists THEN n_input ELSE 0
          /\ pool' = "open"
          /\ pc' = "loop"
          /\ UNCHANGED raised
  /\ UNCHANGED <<entry, input_exists, output_ok, n_input, opts, has_callback,
                 has_flag, cancel_value, next_task, worker, results, unit, i,
                 cur, success_count, failure_count, aggregated, progress,
                 summary, cancelled, finished_emitted, error_emitted,
                 done_at_cancel, picked_after, late_write, last_unit>>
  /\ PipeOnly

\* A free worker of the pool takes the next task of args_list.
PickUp(w) ==
  /\ pool = "open"
  /\ worker[w] = 0
  /\ next_task <= total_files
  /\ worker' = [worker EXCEPT ![w] = next_task]
  /\ unit' = [unit EXCEPT ![next_task] = "running"]
  /\ next_task' = next_task + 1
  /\ picked_after' = IF FlagSet THEN picked_after \cup {next_task} ELSE picked_after
  /\ UNCHANGED <<entry, pc, input_exists, output_ok, n_input, opts,
                 has_callback, has_flag, cancel_value, total_files, pool,
                 results, i, cur, success_count, failure_count, aggregated,
                 progress, summary, cancelled, raised, finished_emitted,
                 error_emitted, done_at_cancel, late_write, last_unit>>
  /\ PipeOnly

\* A worker runs process_file on its task and queues the result.
ProcessFile(w) ==
  /\ pool = "open"
  /\ worker[w] # 0
  /\ \E r \in Outcomes[opts] :
       /\ results' = Append(results, [file |-> worker[w], success |-> r.success])
       /\ unit' = [unit EXCEPT ![worker[w]] = Ending(r)]
       /\ last_unit' = [file |-> worker[w], success |-> r.success,
                   written |-> r.written, events |-> r.events]
       /\ late_write' = (late_write \/ (r.written /\ worker[w] \in picked_after))
  /\ worker' = [worker EXCEPT ![w] = 0]
  /\ UNCHANGED <<entry, pc, input_exists, output_ok, n_input, opts,
                 has_callback, has_flag, cancel_value, total_files, pool,
                 next_task, i, cur, success_count, failure_count, aggregated,
                 progress, summary, cancelled, raised, finished_emitted,
                 error_emitted, done_at_cancel, picked_after>>
  /\ PipeOnly

\* pool.terminate(): the workers are killed, what they were running is lost.
Abandon(u) == [f \in Files |-> IF u[f] = "running" THEN "abandoned" ELSE u[f]]

\* A loop that never looks at the flag.
cancel_requested_NeverPolled == FALSE

\* `if cancel_flag and cancel_flag.value`, the poll at the head of an iteration.
cancel_requested == FlagSet

\* The head of an iteration of copy_directory's loop: the next result of
\* imap_unordered, then the poll of the cancel flag.
Receive ==
  /\ pc = "loop"
  /\ i < total_files
  /\ results # <<>>
  /\ cur' = Head(results)
  /\ results' = Tail(results)
  /\ IF cancel_requested
     THEN /\ pool' = "terminated"
          /\ worker' = [w \in Workers |-> 0]
          /\ unit' = Abandon(unit)
          /\ cancelled' = TRUE
          /\ pc' = "ended"
     ELSE /\ pc' = "count"
          /\ UNCHANGED <<pool, worker, unit, cancelled>>
  /\ UNCHANGED <<entry, input_exists, output_ok, n_input, opts, has_callback,
                 has_flag, cancel_value, total_files, next_task, i,
                 success_count, failure_count, aggregated, progress, summary,
                 raised, finished_emitted, error_emitted, done_at_cancel,
                 picked_after, late_write, last_unit>>
  /\ PipeOnly

\* A tally that forgets the else branch.
tally_SuccessOnly(success, counts) ==
  IF success THEN [counts EXCEPT !.success = @ + 1] ELSE counts

\* `if success: success_count += 1 else: failure_count += 1`
tally(success, counts) ==
  IF success THEN [counts EXCEPT !.success = @ + 1]
  ELSE [counts EXCEPT !.failure = @ + 1]

\* The rest of the iteration: the counters, then the progress callback.
Count ==
  /\ pc = "count"
  /\ LET c == tally(cur.success, [success |-> success_count, failure |-> failure_count])
     IN  success_count' = c.success /\ failure_count' = c.failure
  /\ aggregated' = aggregated \cup {cur.file}
  /\ progress' = IF has_callback
                 THEN Append(progress, ProgressTable[total_files][i + 1])
                 ELSE progress
  /\ i' = i + 1
  /\ cur' = NoResult
  /\ pc' = "loop"
  /\ UNCHANGED <<entry, input_exists, output_ok, n_input, opts, has_callback,
                 has_flag, cancel_value, total_files, pool, next_task, worker,
                 results, unit, summary, cancelled, raised,
                 finished_emitted, error_emitted, done_at_cancel, picked_after, late_write, last_unit>>
  /\ PipeOnly

\* imap_unordered is exhausted: the with block closes the pool, the summary
\* is printed and logged, copy_directory and sort_dicom return.
LoopEnd ==
  /\ pc = "loop"
  /\ i = total_files
  /\ pool' = "terminated"
  /\ summary' = TRUE
  /\ pc' = "ended"
  /\ UNCHANGED <<entry, input_exists, output_ok, n_input, opts, has_callback,
                 has_flag, cancel_value, total_files, next_task, worker,
                 results, unit, last_unit, i, cur, success_count, failure_count,
                 aggregated, progress, cancelled, raised, finished_emitted,
                 error_emitted, done_at_cancel, picked_after, late_write>>
  /\ PipeOnly

UnitsDone == {f \in Files : unit[f] \in Ended}

\* SortingThread.cancel, or any holder of the shared flag, sets it while the
\* run is in progress.
Cancel ==
  /\ has_flag
  /\ ~cancel_value
  /\ pc # "ended"
  /\ cancel_value' = TRUE
  /\ done_at_cancel' = Cardinality(UnitsDone)
  /\ UNCHANGED <<entry, pc, input_exists, output_ok, n_input, opts,
                 has_callback, has_flag, total_files, pool, next_task, worker,
                 results, unit, last_unit, i, cur, success_count, failure_count,
                 aggregated, progress, summary, cancelled, raised,
                 finished_emitted, error_emitted, picked_after, late_write>>
  /\ PipeOnly

PipeNext ==
  \/ SortingThread_run
  \/ sort_dicom
  \/ \E w \in Workers : PickUp(w)
  \/ \E w \in Workers : ProcessFile(w)
  \/ Receive
  \/ Count
  \/ LoopEnd
  \/ Cancel

Init == PipeInit /\ PgIdle /\ AnIdle /\ CpIdle /\ ClIdle /\ RestIdle

Next == PipeNext

Spec == Init /\ [][Next]_vars

\* ------------------------------------------------- the claims on the run
\* What os.walk finds under the input directory.
Enumerated == IF input_exists THEN n_input ELSE 0

Counted(kinds) == Cardinality({f \in aggregated : unit[f] \in kinds})

\* C2: every result copy_directory receives is counted once, as a success or
\* as a failure, and in a run that is not cancelled the two counts add up at
\* the end to the number of files enumerated up front, each enumerated file
\* having been aggregated exactly once, in whatever order the units completed.
C2_CountsAddUp ==
  /\ success_count + failure_count = i
  /\ Cardinality(aggregated) = i
  /\ aggregated \subseteq 1..total_files
  /\ summary => /\ total_files = Enumerated
                /\ aggregated = 1..total_files
                /\ success_count + failure_count = total_files

\* C2: a completed run of two or more files with a success and a failure.
C2_Witness ==
  /\ pc = "ended" /\ summary /\ ~cancelled
  /\ total_files >= 2 /\ success_count >= 1 /\ failure_count >= 1

\* C3: when the cancel flag is set while k of the n units of copy_directory
\* have completed, k < n, the run ends cancelled: the aggregate success count
\* never exceeds k, no summary is produced and finished is not emitted.
C3_CancelEndsCancelled ==
  (FlagSet /\ pool # "none" /\ done_at_cancel < total_files) =>
     /\ success_count <= done_at_cancel
     /\ success_count + failure_count <= done_at_cancel
     /\ ~summary
     /\ finished_emitted = 0
     /\ (pc = "ended" => cancelled /\ pool = "terminated")

\* C3: a run of two or more files cancelled after its first unit completed
\* and was counted as a success.
C3_Witness ==
  /\ pc = "ended" /\ cancelled /\ total_files >= 2
  /\ done_at_cancel = 1 /\ success_count = 1

\* C4 (as stated): once the cancel flag is set no unit begins, and no object
\* is written by a unit that began after that moment.
C4_NoUnitAfterFlag == picked_after = {} /\ ~late_write

\* The three ways a run can end.
Completed == summary
CancelledRun == cancelled
ErrorRun == raised \/ error_emitted > 0

\* What the caller is told: SortingThread emits finished; a caller holding
\* the flag sees a return without exception and tells completion from
\* cancellation by the flag, as SortingThread.run does; main prints the summary.
SurfacedSuccess ==
  CASE entry = "SortingThread" -> finished_emitted = 1
    [] entry = "sort_dicom" -> ~raised /\ ~FlagSet
    [] OTHER -> summary /\ ~raised

\* C5 (as stated): whenever the flag is set, a run ends in exactly one of
\* completed, cancelled and error; a completed run is surfaced as success and
\* a cancelled run is surfaced neither as success nor as an error.
C5_OneTerminalState ==
  pc = "ended" =>
     /\ (Completed \/ CancelledRun \/ ErrorRun)
     /\ ~(Completed /\ CancelledRun) /\ ~(Completed /\ ErrorRun)
     /\ (Completed => SurfacedSuccess)
     /\ (CancelledRun => ~SurfacedSuccess /\ ~ErrorRun)

\* The exceptions a unit can meet.
UnitErrors ==
  {"read_error", "reread_error", "anonymize_error", "decompress_error", "write_error"}

C7_SkippedNotCounted ==
  /\ success_count = Counted({"written"})
  /\ failure_count = Counted({"raised"})

\* C8 (as stated): with a missing input root or an output root that cannot
\* be created, the run ends with an error and dispatches no unit.
C8_BadRootsAbort ==
  (~input_exists \/ ~output_ok) =>
     /\ ~summary
     /\ next_task = 1
     /\ (pc = "ended" => ErrorRun)

\* ------------------------------------------------ the progress expression
\* A run over pg_n files: the loop of copy_directory passes one value to the
\* callback per result, computed from the count of results so far.
PgInit == pg_n \in 0..MaxTotal /\ pg_k = 0 /\ pg_value = 0

\* `progress_callback(int((i + 1) / total_files * 100))`
ProgressStep ==
  /\ pg_k < pg_n
  /\ pg_k' = pg_k + 1
  /\ pg_value' = progress_value(pg_k + 1, pg_n)
  /\ UNCHANGED <<pg_n, pipeVars, anVars, cpVars, clVars, restVars>>

InitProgress == PgInit /\ PipeIdle /\ AnIdle /\ CpIdle /\ ClIdle /\ RestIdle

NextProgress == ProgressStep

SpecProgress == InitProgress /\ [][NextProgress]_vars

\* C9 (as stated): the value passed on the k-th invocation of a run over n
\* files is floor(k / n * 100); it lies in 0..100 and the last one is 100.
C9_ProgressIsFloor ==
  pg_k > 0 =>
     /\ pg_value = ExactPercent(pg_k, pg_n)
     /\ pg_value \in 0..100
     /\ (pg_k = pg_n => pg_value = 100)

\* --------------------------------------------------------- the anonymizer
(***************************************************************************)
(* A data set is [elems, attrs]: elems maps the tags of the elements it    *)
(* holds to their values, attrs holds the plain Python attributes set on   *)
(* the Dataset object. A standard tag goes by its keyword, a private tag   *)
(* by its eight hex digits. Text values are strings, dates are sequences   *)
(* of decimal digits, UIDs are sequences of components, each a sequence of *)
(* decimal digits.                                                         *)
(***************************************************************************)

\* The standard elements of the model, and their tag numbers.
TagNumber ==
  [PatientID |-> "00100020", PatientName |-> "00100010",
   PatientBirthDate |-> "00100030", PatientSex |-> "00100040",
   AcquisitionDate |-> "00080022", AccessionNumber |-> "00080050",
   InstitutionAddress |-> "00080081", Manufacturer |-> "00080070",
   SOPClassUID |-> "00080016", SOPInstanceUID |-> "00080018",
   SeriesInstanceUID |-> "0020000E",
   StudyDate |-> "00080020", SeriesNumber |-> "00200011",
   SeriesDescription |-> "0008103E", ImageType |-> "00080008",
   BurnedInAnnotation |-> "00280301",
   PatientDeathDateInAlternativeCalendar |-> "00100034",
   ReferencedImageSequence |-> "00081140"]

Keywords == DOMAIN TagNumber

\* The private elements of the model (odd group number, no keyword).
PrivateTags == {"2001101B", "20011003"}

Tags == Keywords \cup PrivateTags

\* str.startswith('Patient'), str.endswith('UID'), 'Date' in str and
\* 'ID' in str, over the keywords of the model.
StartsWithPatient ==
  {"PatientID", "PatientName", "PatientBirthDate", "PatientSex",
   "PatientDeathDateInAlternativeCalendar"}
EndsWithUID == {"SOPClassUID", "SOPInstanceUID", "SeriesInstanceUID"}
ContainsDate ==
  {"PatientBirthDate", "AcquisitionDate", "StudyDate",
   "PatientDeathDateInAlternativeCalendar"}
ContainsID == {"PatientID", "SOPClassUID", "SOPInstanceUID", "SeriesInstanceUID"}

Range(f) == {f[x] : x \in DOMAIN f}

\* The function f, held as a table of its values.
Tabulated(f) == f @@ <<>>

\* Python's None.
None == "None"

\* Tag(key): a string of hex digits is the tag of that number, any other
\* string the tag of that keyword; "" stands for a tag outside the model.
TagOf(key) ==
  IF key \in Keywords \cup PrivateTags THEN key
  ELSE IF \E k \in Keywords : TagNumber[k] = key
       THEN CHOOSE k \in Keywords : TagNumber[k] = key
       ELSE ""

\* `key in dataset`
Dataset_contains(ds, key) == TagOf(key) \in DOMAIN ds.elems

\* dataset.get(key): getattr by a keyword, the value of the element or None;
\* a string that is no keyword names a plain attribute, None when not set.
Dataset_get(ds, key) ==
  IF key \in Keywords
  THEN IF key \in DOMAIN ds.elems THEN ds.elems[key] ELSE None
  ELSE IF \E a \in ds.attrs : a[1] = key
       THEN (CHOOSE a \in ds.attrs : a[1] = key)[2]
       ELSE None

\* setattr(dataset, name, value): a keyword sets the element, any other name
\* sets a plain attribute of the Dataset object and leaves the elements alone.
Dataset_setattr(ds, name, value) ==
  IF name \in Keywords
  THEN [ds EXCEPT !.elems = [t \in DOMAIN ds.elems \cup {name} |->
                               IF t = name THEN value ELSE ds.elems[t]]]
  ELSE [ds EXCEPT !.attrs = {a \in ds.attrs : a[1] # name} \cup {<<name, value>>}]

\* dataset.remove_private_tags()
remove_private_tags(ds) ==
  [ds EXCEPT !.elems = [t \in DOMAIN ds.elems \ PrivateTags |-> ds.elems[t]]]

\* dataset.dir(): the keywords of the elements present.
Dataset_dir(ds) == DOMAIN ds.elems \cap Keywords

\* ------------------------------------------------------------- dates
Digits(n, width) == [j \in 1..width |-> (n \div (10 ^ (width - j))) % 10]

RECURSIVE ToNat(_)
ToNat(ds) == IF ds = <<>> THEN 0 ELSE 10 * ToNat(SubSeq(ds, 1, Len(ds) - 1)) + ds[Len(ds)]

IsLeap(y) == (y % 4 = 0 /\ y % 100 # 0) \/ y % 400 = 0

DaysIn(y, m) ==
  IF m = 2 THEN (IF IsLeap(y) THEN 29 ELSE 28)
  ELSE IF m \in {4, 6, 9, 11} THEN 30 ELSE 31

\* datetime.strptime(s, "%Y%m%d") for a string of eight digits: the date, or
\* that ValueError is raised.
strptime(s) ==
  LET y == ToNat(SubSeq(s, 1, 4))
      m == ToNat(SubSeq(s, 5, 6))
      d == ToNat(SubSeq(s, 7, 8))
  IN  [ok |-> Len(s) = 8 /\ y >= 1 /\ m \in 1..12 /\ d >= 1 /\ d <= DaysIn(y, m),
       year |-> y, month |-> m, day |-> d]

\* dummy.strftime("%Y%m%d"), for a year of four digits.
strftime(t) == Digits(t.year, 4) \o Digits(t.month, 2) \o Digits(t.day, 2)

\* "20000101"
DefaultDate == <<2, 0, 0, 0, 0, 1, 0, 1>>

\* A generate_dummy_date that returns the parsed date whatever the flag.
generate_dummy_date_KeepsDay(original_date, anonymize_to_first_of_year) ==
  IF original_date = <<>> THEN DefaultDate
  ELSE LET original == strptime(original_date)
       IN  IF ~original.ok THEN DefaultDate ELSE strftime(original)

generate_dummy_date(original_date, anonymize_to_first_of_year) ==
  IF original_date = <<>> THEN DefaultDate
  ELSE LET original == strptime(original_date)
       IN  IF ~original.ok THEN DefaultDate
           ELSE IF anonymize_to_first_of_year
                THEN strftime([year |-> original.year, month |-> 1, day |-> 1])
                ELSE strftime(original)

\* ------------------------------------------------------------ hashes
\* hashlib.md5(original_id.encode()).hexdigest()[:8], for the identifiers of
\* the model.
md5_hexdigest_8 ==
  [x \in {"OLD1", "P2", "../../P2", "DOE^J", ""} |->
     IF x = "OLD1" THEN "fe9640bb"
     ELSE IF x = "P2" THEN "5890595e"
     ELSE IF x = "../../P2" THEN "aa2a7519"
     ELSE IF x = "DOE^J" THEN "ea273fb6"
     ELSE "d41d8cd9"]

generate_dummy_id(original_id) == md5_hexdigest_8[original_id]

\* "1.2.840.113619.2.55.1"
UidA == <<<<1>>, <<2>>, <<8, 4, 0>>, <<1, 1, 3, 6, 1, 9>>, <<2>>, <<5, 5>>, <<1>>>>

\* "1.2.840.113619.2.55.2"
UidB == <<<<1>>, <<2>>, <<8, 4, 0>>, <<1, 1, 3, 6, 1, 9>>, <<2>>, <<5, 5>>, <<2>>>>

\* "1.2.840.113619.9"
UidSeries == <<<<1>>, <<2>>, <<8, 4, 0>>, <<1, 1, 3, 6, 1, 9>>, <<9>>>>

\* "1.2.840.10008.5.1.4.1.1.4", MR Image Storage
UidClass ==
  <<<<1>>, <<2>>, <<8, 4, 0>>, <<1, 0, 0, 0, 8>>, <<5>>, <<1>>, <<4>>, <<1>>, <<1>>, <<4>>>>

UidValues == {UidA, UidB, UidSeries, UidClass}

\* The first sixteen hex digits of hashlib.sha256(uid.encode()).hexdigest(),
\* for the UIDs of the model; each hex digit gives at least one decimal
\* digit, so the first sixteen digits of numeric_hash come from them.
sha256_hexdigest_16(uid) ==
  IF uid = UidClass THEN <<1, 13, 5, 10, 11, 1, 8, 3, 8, 15, 8, 3, 9, 1, 12, 3>>
  ELSE IF uid = UidA THEN <<8, 0, 2, 12, 0, 0, 5, 8, 14, 5, 8, 6, 2, 1, 13, 8>>
  ELSE   IF uid = UidB THEN <<0, 15, 11, 9, 6, 5, 4, 14, 10, 11, 10, 15, 4, 9, 14, 10>>
  ELSE   IF uid = UidSeries THEN <<9, 1, 15, 7, 4, 0, 8, 0, 12, 12, 3, 5, 9, 3, 0, 2>>
  ELSE <<>>

RECURSIVE Flatten(_)
\* ''.join(...)
Flatten(ss) == IF ss = <<>> THEN <<>> ELSE Head(ss) \o Flatten(Tail(ss))

\* str(int(c, 16)) for a hex digit c
DecimalOfHex(c) == IF c < 10 THEN <<c>> ELSE <<1, c - 10>>

\* generate_dummy_uid: the first four components of the original, then the
\* first sixteen digits of the decimal expansion of its SHA-256 hex digest.
generate_dummy_uid(original_uid) ==
  LET uid_parts    == original_uid
      prefix       == SubSeq(uid_parts, 1, IF Len(uid_parts) < 4 THEN Len(uid_parts) ELSE 4)
      hexdigest    == sha256_hexdigest_16(original_uid)
      numeric_hash == Flatten([j \in 1..Len(hexdigest) |-> DecimalOfHex(hexdigest[j])])
  IN  prefix \o <<SubSeq(numeric_hash, 1, 16)>>

\* The draws of generate_dummy_accession_number.
AccessionDraws == {"4820175936402718", "0093817264550912"}

\* ------------------------------------------------- anonymize_dicom_tags
\* The list of tags to preserve, as written in anonymize_dicom_tags.
preserved_tags ==
  <<"00080070", "00081090", "00181030", "00189423", "00080020", "00180087",
    "00080080", "00200011", "0008103E", "00540081", "00181310", "00280030",
    "00180088", "00180050", "00180080", "00180081", "00180086", "00180091",
    "00180082", "00181314", "00080008", "00189073", "2001101B", "200110C8",
    "00080032", "00080033", "00200100", "00200110", "00209111", "00189074",
    "20050010", "20050014", "20051404", "20051406", "20010010", "20010011",
    "20010090", "20051000", "20051001", "20051002", "20051008", "20051009",
    "2005100a", "20051355">>

\* The tags of the list, for `tag in preserved_tags`.
preserved_set == Range(preserved_tags)

preserved_uids == {"StudyInstanceUID", "SeriesInstanceUID", "FrameOfReferenceUID"}

\* The Correlation Table of the runs of the model, and the absent one.
IdTable == [x \in {"OLD1"} |-> "NEW1"]
NoIdTable == [x \in {} |-> ""]

\* The entries of preserved_tags that name a tag of the model: no data set of
\* the model holds any other.
preserved_known == {t \in preserved_set : TagOf(t) # ""}

\* `id_map and original_id in id_map`. A PersonName hashes its tuple of
\* components, not its string, so as a key it misses the str keys of id_map.
in_id_map(original_id, id_map, is_person_name) ==
  /\ DOMAIN id_map # {}
  /\ ~is_person_name
  /\ original_id \in DOMAIN id_map

\* A strict loop that salts the replacement of a UID with the patient of the
\* object.
strict_value_SaltedUid(ds, tag) ==
  IF tag \in EndsWithUID /\ tag \notin preserved_uids
  THEN generate_dummy_uid(ds.elems[tag]) \o <<<<IF ds.elems["PatientID"] = "NEW1" THEN 1 ELSE 2>>>>
  ELSE ds.elems[tag]

\* The body of the strict loop for one keyword of dataset.dir(): the value the
\* element is left with.
strict_value(ds, tag) ==
  IF tag \in preserved_set THEN ds.elems[tag]
  ELSE IF tag \in StartsWithPatient
  THEN IF tag \in {"PatientID", "PatientName", "PatientBirthDate"} THEN ds.elems[tag]
       ELSE IF tag = "PatientSex" THEN "O"
       ELSE IF tag = "PatientAge" THEN "000Y"
       ELSE IF tag \in {"PatientWeight", "PatientSize"} THEN ""
       ELSE IF tag \in ContainsDate THEN generate_dummy_date(ds.elems[tag], FALSE)
       ELSE IF tag \in ContainsID THEN generate_dummy_id(ds.elems[tag])
       ELSE "ANONYMIZED"
  ELSE IF tag \in EndsWithUID
  THEN IF tag \in preserved_uids THEN ds.elems[tag]
       ELSE generate_dummy_uid(ds.elems[tag])
  ELSE ds.elems[tag]

\* `if strict:` ... the loop over dataset.dir() included.
strict_pass(ds, o) ==
  LET kept == IF ~o.preserve_private_tags THEN remove_private_tags(ds) ELSE ds
  IN  [kept EXCEPT !.elems = [t \in DOMAIN kept.elems |->
                                IF t \in Dataset_dir(kept) THEN strict_value(kept, t)
                                ELSE kept.elems[t]]]

RECURSIVE restore(_, _, _)
\* `for tag, value in preserved_values.items(): setattr(dataset, tag, value)`
restore(ds, preserved_values, todo) ==
  IF todo = {} THEN ds
  ELSE LET tag == CHOOSE t \in todo : TRUE
       IN  restore(Dataset_setattr(ds, tag, preserved_values[tag]),
                   preserved_values, todo \ {tag})

\* An anonymizer that draws the pseudonym at random.
anonymize_dicom_tags_RandomPseudonym(dataset, o, draw) ==
  [raised  |-> FALSE,
   dataset |-> Dataset_setattr(Dataset_setattr(dataset, "PatientID", draw),
                               "PatientName", draw),
   missing |-> {}]

\* anonymize_dicom_tags(dataset, id_map, strict, ...), with the draw of
\* generate_dummy_accession_number: whether it raised, the data set it
\* returned and what it added to missing_ids.
anonymize_dicom_tags(dataset, o, draw) ==
  LET preserved_values ==
        [tag \in {t \in preserved_known : Dataset_contains(dataset, t)} |->
           Dataset_get(dataset, tag)]
      id_field == IF o.id_from_name THEN "PatientName" ELSE "PatientID"
  IN  IF id_field \notin DOMAIN dataset.elems
      THEN [raised |-> TRUE, dataset |-> dataset, missing |-> {}]     \* AttributeError
      ELSE
      LET original_id == dataset.elems[id_field]
          found  == in_id_map(original_id, o.id_map, o.id_from_name)
          new_id == IF found THEN o.id_map[original_id] ELSE generate_dummy_id(original_id)
          d1 == Dataset_setattr(Dataset_setattr(dataset, "PatientID", new_id),
                                "PatientName", new_id)
          d2 == IF Dataset_contains(d1, "PatientBirthDate") /\ o.anonymize_birth_date
                THEN Dataset_setattr(d1, "PatientBirthDate",
                       generate_dummy_date(d1.elems["PatientBirthDate"], TRUE))
                ELSE d1
          d3 == IF Dataset_contains(d2, "AcquisitionDate") /\ o.anonymize_acquisition_date
                THEN Dataset_setattr(d2, "AcquisitionDate",
                       generate_dummy_date(d2.elems["AcquisitionDate"], TRUE))
                ELSE d2
          d4 == IF o.anonymize_accession /\ Dataset_contains(d3, "00080050")
                THEN Dataset_setattr(d3, "AccessionNumber", draw)
                ELSE d3
          d5 == IF o.strict THEN strict_pass(d4, o) ELSE d4
      IN  [raised  |-> FALSE,
           dataset |-> restore(d5, preserved_values, DOMAIN preserved_values),
           missing |-> IF found THEN {} ELSE {original_id}]

\* ------------------------------------------------------- the data sets
\* The elements of the objects handed to anonymize_dicom_tags.
AnonTags ==
  {"PatientID", "PatientName", "PatientBirthDate", "PatientSex",
   "PatientDeathDateInAlternativeCalendar",
   "ReferencedImageSequence",
   "AcquisitionDate", "AccessionNumber", "InstitutionAddress", "Manufacturer",
   "SOPClassUID", "SOPInstanceUID", "SeriesInstanceUID"} \cup PrivateTags

\* An object with every one of them.
BaseElems ==
  [t \in AnonTags |->
     CASE t = "PatientID" -> "OLD1"
       [] t = "PatientName" -> "DOE^J"
       [] t = "PatientBirthDate" -> <<1, 9, 8, 0, 0, 5, 2, 3>>
       [] t = "PatientSex" -> "F"
       [] t = "ReferencedImageSequence" -> <<[ReferencedSOPInstanceUID |-> UidB]>>
       [] t = "PatientDeathDateInAlternativeCalendar" -> <<2, 0, 2, 1, 0, 3, 1, 5>>
       [] t = "AcquisitionDate" -> <<2, 0, 2, 1, 1, 1, 3, 0>>
       [] t = "AccessionNumber" -> "ACC1"
       [] t = "InstitutionAddress" -> "1 Main St"
       [] t = "Manufacturer" -> "Philips"
       [] t = "SOPClassUID" -> UidClass
       [] t = "SOPInstanceUID" -> UidA
       [] t = "SeriesInstanceUID" -> UidSeries
       [] t = "2001101B" -> "dyn"
       [] OTHER -> "priv"]

\* The other values an element takes.
OtherValues(t) ==
  CASE t = "PatientID" -> {"P2"}
    [] t = "PatientName" -> {"OLD1"}
    [] t = "PatientBirthDate" -> {<<>>, <<1, 9, 8, 0, 1, 3, 0, 1>>}
    [] t = "SOPInstanceUID" -> {UidB}
    [] OTHER -> {}

\* The elements every object of the model holds.
AlwaysHeld == {"ReferencedImageSequence"}

\* The element maps one edit away from e: an element dropped or revalued.
EditOne(e) ==
  {e} \cup {[t \in DOMAIN e \ {x} |-> e[t]] : x \in DOMAIN e \ AlwaysHeld}
      \cup UNION {{[e EXCEPT ![x] = v] : v \in OtherValues(x)} : x \in DOMAIN e}

RECURSIVE Edits(_)
Edits(k) == IF k = 0 THEN {BaseElems} ELSE UNION {EditOne(e) : e \in Edits(k - 1)}

\* The data sets pydicom.dcmread hands over: no plain attribute is set.
Datasets == {[elems |-> e, attrs |-> {}] : e \in Edits(MaxEdits)}

AnonOptions ==
  [id_map : {NoIdTable, IdTable}, strict : BOOLEAN, id_from_name : BOOLEAN,
   anonymize_birth_date : BOOLEAN, anonymize_acquisition_date : BOOLEAN,
   preserve_private_tags : BOOLEAN, anonymize_accession : BOOLEAN]

NotRun == [raised |-> FALSE, ran |-> FALSE, dataset |-> [elems |-> <<>>, attrs |-> {}]]

\* The processes of a run: the driving process 0 and the workers of the pool.
Processes == {0} \cup Workers

\* ---------------------------------------------------- one call (SpecAnon)
InitAnon ==
  /\ an_input \in Datasets
  /\ an_opts \in AnonOptions
  /\ an_output = NotRun
  /\ an_worker = 1
  /\ an_count = 0
  /\ an_seen = {}
  /\ an_missing = [p \in Processes |-> {}]
  /\ PipeIdle /\ PgIdle /\ CpIdle /\ ClIdle /\ RestIdle

\* The call of anonymize_dicom_tags in copy_dicom_image.
Anonymize ==
  /\ ~an_output.ran
  /\ \E draw \in AccessionDraws :
       LET r == anonymize_dicom_tags(an_input, an_opts, draw)
       IN  /\ an_output' = [raised |-> r.raised, ran |-> TRUE, dataset |-> r.dataset]
           /\ an_missing' = [an_missing EXCEPT ![an_worker] = @ \cup r.missing]
  /\ an_count' = an_count + 1
  /\ UNCHANGED <<an_input, an_opts, an_worker, an_seen, pipeVars, pgVars, cpVars, clVars, restVars>>

NextAnon == Anonymize

SpecAnon == InitAnon /\ [][NextAnon]_vars

\* The tags of the model that the preserved list names.
PreservedInModel == {t \in Tags : \E j \in DOMAIN preserved_tags : TagOf(preserved_tags[j]) = t}

\* C10 (as stated): every tag of the preserved list that the input holds is
\* in the data set anonymize_dicom_tags returns, with the value it had.
C10_PreservedKept ==
  (an_output.ran /\ ~an_output.raised) =>
     \A t \in PreservedInModel \cap DOMAIN an_input.elems :
        /\ t \in DOMAIN an_output.dataset.elems
        /\ an_output.dataset.elems[t] = an_input.elems[t]

\* --------------------------------------- the workers of a pool (SpecWorkers)
\* The objects of a run: series mates that differ in their SOP instance and
\* in their patient, and one without PatientID.
WorkerObjects ==
  {[elems |-> [BaseElems EXCEPT !["SOPInstanceUID"] = u, !["PatientID"] = p], attrs |-> {}] :
       u \in {UidA, UidB}, p \in {"OLD1", "P2"}}
    \cup {[elems |-> [t \in AnonTags \ {"PatientID"} |-> BaseElems[t]], attrs |-> {}]}

\* A run hands every unit the same arguments.
InitWorkers ==
  /\ an_opts \in AnonOptions
  /\ an_input = [elems |-> <<>>, attrs |-> {}]
  /\ an_output = NotRun
  /\ an_worker = 0
  /\ an_count = 0
  /\ an_seen = {}
  /\ an_missing = [p \in Processes |-> {}]
  /\ PipeIdle /\ PgIdle /\ CpIdle /\ ClIdle /\ RestIdle

\* The UID-typed elements of a written object, each with the value the input
\* object had in it.
UidPairs(w, in, out) ==
  {[worker |-> w, tag |-> t,
    original |-> in.elems[t], replacement |-> out.elems[t]] :
       t \in EndsWithUID \cap DOMAIN in.elems \cap DOMAIN out.elems}

\* What anonymize_dicom_tags makes of the objects of a run, for every setting
\* of its arguments and every draw.
WorkerResults ==
  Tabulated([k \in AnonOptions \X WorkerObjects \X AccessionDraws |->
               anonymize_dicom_tags(k[2], k[1], k[3])])

\* Worker w takes the next object of the run through anonymize_dicom_tags, in
\* its own process; the object is written when the call returns.
WorkerAnonymize(w) ==
  /\ an_count < MaxObjects
  /\ \E d \in WorkerObjects, draw \in AccessionDraws :
       LET r == WorkerResults[<<an_opts, d, draw>>]
       IN  /\ an_input' = d
           /\ an_output' = [raised |-> r.raised, ran |-> TRUE, dataset |-> r.dataset]
           /\ an_missing' = [an_missing EXCEPT ![w] = @ \cup r.missing]
           /\ an_seen' = IF r.raised THEN an_seen
                         ELSE an_seen \cup UidPairs(w, d, r.dataset)
  /\ an_worker' = w
  /\ an_count' = an_count + 1
  /\ UNCHANGED <<an_opts, pipeVars, pgVars, cpVars, clVars, restVars>>

NextWorkers == \E w \in Workers : WorkerAnonymize(w)

SpecWorkers == InitWorkers /\ [][NextWorkers]_vars

\* C1: under Strict, two non-exempt UID-typed fields of objects written in
\* the same run that carried the same original UID carry the same replacement,
\* whichever workers anonymized the objects.
C1_SameUidSameReplacement ==
  an_opts.strict =>
     \A a \in an_seen : \A b \in an_seen :
        (a.tag \notin preserved_uids /\ b.tag \notin preserved_uids
           /\ a.original = b.original) => a.replacement = b.replacement

\* C1: two objects of a Strict run, each anonymized by a worker of its own,
\* were written with a replaced UID field that held the same original in both.
C1_Witness ==
  /\ an_opts.strict
  /\ \E a \in an_seen : \E b \in an_seen :
       /\ a.worker # b.worker
       /\ a.tag \notin preserved_uids /\ b.tag \notin preserved_uids
       /\ a.original = b.original
       /\ a.replacement = b.replacement /\ a.replacement # a.original

\* ------------------------------------- the claims on anonymize_dicom_tags
\* The call returned.
Returned == an_output.ran /\ ~an_output.raised

\* The element the original identifier is read from.
IdField == IF an_opts.id_from_name THEN "PatientName" ELSE "PatientID"

\* The replacement the Correlation Table and the pseudonym rule give to an
\* original identifier.
Replacement(original_id) ==
  IF original_id \in DOMAIN an_opts.id_map THEN an_opts.id_map[original_id]
  ELSE generate_dummy_id(original_id)

\* C11 (as stated): after anonymize_dicom_tags PatientID and PatientName both
\* hold the replacement of the original identifier (its Correlation Table
\* entry when there is one, its pseudonym otherwise), the original being read
\* from PatientName when id_from_name is set and from PatientID otherwise.
C11_IdAndNameReplaced ==
  Returned =>
     /\ an_output.dataset.elems["PatientID"] = Replacement(an_input.elems[IdField])
     /\ an_output.dataset.elems["PatientName"] = Replacement(an_input.elems[IdField])

\* The set main reads after sort_dicom has returned: the missing_ids of the
\* driving process.
MissingIdsOfMain == an_missing[0]

\* C12 (as stated): the original identifier of an anonymized object that has
\* no Correlation Table entry is in the missing_ids set the driving process
\* reads at the end of the run, whichever worker anonymized the object.
C12_MissingIdsReachMain ==
  (Returned /\ an_input.elems[IdField] \notin DOMAIN an_opts.id_map)
     => an_input.elems[IdField] \in MissingIdsOfMain

\* The elements two results may differ in: the accession number, when it is
\* drawn.
Randomized == IF an_opts.anonymize_accession THEN {"AccessionNumber"} ELSE {}

\* Two data sets hold the same elements with the same values, but for the
\* tags of `except`.
SameElements(a, b, except) ==
  /\ DOMAIN a.elems = DOMAIN b.elems
  /\ \A t \in DOMAIN a.elems \ except : a.elems[t] = b.elems[t]

DigitChar == <<"0", "1", "2", "3", "4", "5", "6", "7", "8", "9">>

StrDigits(d) == [j \in 1..Len(d) |-> DigitChar[d[j] + 1]]

RECURSIVE StrUid(_)
\* str() of a UID: its components joined by dots.
StrUid(u) ==
  IF u = <<>> THEN <<>>
  ELSE IF Len(u) = 1 THEN StrDigits(u[1])
  ELSE StrDigits(u[1]) \o <<".">> \o StrUid(Tail(u))

\* str(value) of the element `tag`.
Str(tag, value) ==
  IF tag \in EndsWithUID THEN StrUid(value)
  ELSE IF tag \in ContainsDate \cup {"SeriesNumber"} THEN StrDigits(value)
  ELSE IF tag = "SeriesDescription" THEN value
  ELSE <<value>>

UNKNOWN == <<"U", "N", "K", "N", "O", "W", "N">>

\* get_dicom_attribute: str(getattr(dataset, attribute)), 'UNKNOWN' when
\* getattr raises AttributeError.
get_dicom_attribute(ds, attribute) ==
  IF attribute \in DOMAIN ds.elems THEN Str(attribute, ds.elems[attribute])
  ELSE UNKNOWN

\* str.zfill(width), for a string without a sign
zfill(str, width) ==
  IF Len(str) >= width THEN str
  ELSE [j \in 1..(width - Len(str)) |-> "0"] \o str

\* invalid_chars of sanitize_series_description
invalid_chars == {"<", ">", ":", "\"", "/", "\\", "|", "?", "*"}

NotInvalid(c) == c \notin invalid_chars

NotStar(c) == c # "*"

\* sanitize_series_description: ' ' and '.' become '_', '*' and the invalid
\* characters go; sanitize_filepath leaves what remains of the model's
\* descriptions (letters, digits, '_') as it is.
sanitize_series_description(description) ==
  LET replaced == [j \in 1..Len(description) |->
                     IF description[j] \in {" ", "."} THEN "_" ELSE description[j]]
  IN  SelectSeq(SelectSeq(replaced, NotStar), NotInvalid)

\* series_uid.split('.')[-1][-5:]
uid_suffix(series_uid) ==
  LET dots   == {j \in 1..Len(series_uid) : series_uid[j] = "."}
      from   == IF dots = {} THEN 1
                ELSE 1 + CHOOSE j \in dots : \A k \in dots : k <= j
      lowest == IF Len(series_uid) - 4 > from THEN Len(series_uid) - 4 ELSE from
  IN  SubSeq(series_uid, lowest, Len(series_uid))

\* series_dir of copy_dicom_image
series_dir(ds) ==
  zfill(get_dicom_attribute(ds, "SeriesNumber"), 3) \o <<"_">>
    \o sanitize_series_description(get_dicom_attribute(ds, "SeriesDescription"))
    \o <<"_">> \o uid_suffix(get_dicom_attribute(ds, "SeriesInstanceUID"))

\* study_date of copy_dicom_image
study_date(ds, anonymize_acquisition_date) ==
  LET read == get_dicom_attribute(ds, "StudyDate")
  IN  IF anonymize_acquisition_date /\ read # UNKNOWN
      THEN SubSeq(read, 1, IF Len(read) < 4 THEN Len(read) ELSE 4) \o <<"0", "1", "0", "1">>
      ELSE read

\* dest_directory: the pattern of sort_dicom, '%PatientID%/%StudyDate%/
\* %SeriesDescription%', with its placeholders replaced, under dest_base_dir.
dest_directory(ds, anonymize_acquisition_date) ==
  <<get_dicom_attribute(ds, "PatientID"), study_date(ds, anonymize_acquisition_date),
    series_dir(ds)>>

\* new_filename of copy_dicom_image
new_filename(ds) == get_dicom_attribute(ds, "SOPInstanceUID") \o <<".", "d", "c", "m">>

CopyOptions ==
  [anonymize : BOOLEAN, strict_anonymize : BOOLEAN, anonymize_acquisition_date : BOOLEAN]

\* The arguments copy_dicom_image passes on to anonymize_dicom_tags.
AnonArgs(o) ==
  [id_map |-> NoIdTable, strict |-> o.strict_anonymize, id_from_name |-> FALSE,
   anonymize_birth_date |-> FALSE,
   anonymize_acquisition_date |-> o.anonymize_acquisition_date,
   preserve_private_tags |-> FALSE, anonymize_accession |-> FALSE]

\* The path dataset.save_as is called with in copy_dicom_image, for an object
\* that is read and anonymized without an exception.
save_as_path(dataset, o, draw) ==
  LET ds == IF o.anonymize THEN anonymize_dicom_tags(dataset, AnonArgs(o), draw).dataset
            ELSE dataset
  IN  dest_directory(ds, o.anonymize_acquisition_date) \o <<new_filename(ds)>>

\* The objects of an input tree: two patients and a third whose identifier
\* holds path separators and '..', one study, one series under two spellings
\* of its description, with and without a SOP instance UID.
CopyObjects ==
  {[elems |-> e, attrs |-> {}] :
     e \in UNION {
       {[t \in {"PatientID", "StudyDate", "SeriesNumber", "SeriesDescription",
                "SeriesInstanceUID"} \cup has |->
           CASE t = "PatientID" -> p
             [] t = "StudyDate" -> <<2, 0, 2, 1, 0, 3, 1, 5>>
             [] t = "SeriesNumber" -> <<3>>
             [] t = "SeriesDescription" -> d
             [] t = "SeriesInstanceUID" -> UidSeries
             [] OTHER -> u] :
          p \in {"OLD1", "P2", "../../P2"},
          d \in {<<"T", "1", " ", "W">>, <<"T", "1", "_", "W", "*">>},
          u \in {UidA, UidB}} : has \in {{}, {"SOPInstanceUID"}}}}

\* ------------------------------------------- writing the tree (SpecCopy)
\* save_as_path, over the options, objects and draws of the model.
SavePaths ==
  Tabulated([k \in CopyOptions \X CopyObjects \X AccessionDraws |->
               save_as_path(k[2], k[1], k[3])])

\* The files of an input tree hold different objects, and no two of them
\* the same SOP instance UID.
DistinctObjects(objects) ==
  \A f, g \in DOMAIN objects :
     f # g => /\ objects[f] # objects[g]
              /\ \/ "SOPInstanceUID" \notin DOMAIN objects[f].elems
                 \/ "SOPInstanceUID" \notin DOMAIN objects[g].elems
                 \/ objects[f].elems["SOPInstanceUID"] # objects[g].elems["SOPInstanceUID"]

InitCopy ==
  /\ cp_objects \in {objects \in [Files -> CopyObjects] : DistinctObjects(objects)}
  /\ cp_opts \in CopyOptions
  /\ cp_done = {}
  /\ cp_tree = <<>>
  /\ PipeIdle /\ PgIdle /\ AnIdle /\ ClIdle /\ RestIdle

\* A worker runs copy_dicom_image on file f, up to and with dataset.save_as:
\* the file at the path is created, or replaced when there is one.
CopyImage(f) ==
  /\ f \notin cp_done
  /\ \E draw \in AccessionDraws :
       LET path == SavePaths[<<cp_opts, cp_objects[f], draw>>]
       IN  cp_tree' = [q \in DOMAIN cp_tree \cup {path} |->
                         IF q = path THEN f ELSE cp_tree[q]]
  /\ cp_done' = cp_done \cup {f}
  /\ UNCHANGED <<cp_objects, cp_opts, pipeVars, pgVars, anVars, clVars, restVars>>

NextCopy == \E f \in Files : CopyImage(f)

SpecCopy == InitCopy /\ [][NextCopy]_vars

\* C14 (as stated): the files written so far lie at as many destination
\* paths: no object was saved over the file of another one.
C14_NoSharedPath == Cardinality(DOMAIN cp_tree) = Cardinality(cp_done)

\* ---------------------------------------------------------- the classifier
lowercase ==
  <<"a", "b", "c", "d", "e", "f", "g", "h", "i", "j", "k", "l", "m",
    "n", "o", "p", "q", "r", "s", "t", "u", "v", "w", "x", "y", "z">>

uppercase ==
  <<"A", "B", "C", "D", "E", "F", "G", "H", "I", "J", "K", "L", "M",
    "N", "O", "P", "Q", "R", "S", "T", "U", "V", "W", "X", "Y", "Z">>

\* str.upper()
upper(str) ==
  [j \in 1..Len(str) |->
     IF \E k \in 1..26 : lowercase[k] = str[j]
     THEN uppercase[CHOOSE k \in 1..26 : lowercase[k] = str[j]]
     ELSE str[j]]

\* `needle in str`, for two strings
str_in(needle, str) ==
  \E j \in 1..(Len(str) - Len(needle) + 1) :
     SubSeq(str, j, j + Len(needle) - 1) = needle

\* any(needle in item for item in image_type)
any_in(needle, image_type) ==
  \E j \in 1..Len(image_type) : str_in(needle, image_type[j])

\* An is_derived_image that does not look at the series description.
is_derived_image_TypeOnly(dataset) ==
  LET image_type   == IF Dataset_contains(dataset, "ImageType")
                      THEN dataset.elems["ImageType"] ELSE <<>>
      manufacturer == IF Dataset_contains(dataset, "Manufacturer")
                      THEN dataset.elems["Manufacturer"] ELSE <<>>
      series_desc  == IF Dataset_contains(dataset, "SeriesDescription")
                      THEN upper(dataset.elems["SeriesDescription"]) ELSE <<>>
      is_survey    == \/ str_in(<<"S", "U", "R", "V", "E", "Y">>, series_desc)
                      \/ str_in(<<"S", "U", "R", "V">>, series_desc)
                      \/ str_in(<<"S", "M", "A", "R", "T">>, series_desc)
                      \/ str_in(<<"S", "C", "O", "U", "T">>, series_desc)
                      \/ str_in(<<"S", "V">>, series_desc)
      has_projection == any_in(<<"P", "R", "O", "J", "E", "C", "T", "I", "O", "N">>, image_type)
      has_derived    == any_in(<<"D", "E", "R", "I", "V", "E", "D">>, image_type)
      has_primary    == any_in(<<"P", "R", "I", "M", "A", "R", "Y">>, image_type)
      has_RCBV       == any_in(<<"R", "C", "B", "V">>, image_type)
      has_secondary  == any_in(<<"S", "E", "C", "O", "N", "D", "A", "R", "Y">>, image_type)
      has_adc        == any_in(<<"A", "D", "C">>, image_type)
  IN  \/ ~has_primary
      \/ ~str_in(<<"P", "h", "i", "l", "i", "p", "s">>, manufacturer)
      \/ has_projection
      \/ has_RCBV
      \/ has_derived
      \/ has_secondary
      \/ has_adc

\* is_derived_image
is_derived_image(dataset) ==
  LET image_type   == IF Dataset_contains(dataset, "ImageType")
                      THEN dataset.elems["ImageType"] ELSE <<>>
      manufacturer == IF Dataset_contains(dataset, "Manufacturer")
                      THEN dataset.elems["Manufacturer"] ELSE <<>>
      series_desc  == IF Dataset_contains(dataset, "SeriesDescription")
                      THEN upper(dataset.elems["SeriesDescription"]) ELSE <<>>
      is_survey    == \/ str_in(<<"S", "U", "R", "V", "E", "Y">>, series_desc)
                      \/ str_in(<<"S", "U", "R", "V">>, series_desc)
                      \/ str_in(<<"S", "M", "A", "R", "T">>, series_desc)
                      \/ str_in(<<"S", "C", "O", "U", "T">>, series_desc)
                      \/ str_in(<<"S", "V">>, series_desc)
      has_projection == any_in(<<"P", "R", "O", "J", "E", "C", "T", "I", "O", "N">>, image_type)
      has_derived    == any_in(<<"D", "E", "R", "I", "V", "E", "D">>, image_type)
      has_primary    == any_in(<<"P", "R", "I", "M", "A", "R", "Y">>, image_type)
      has_RCBV       == any_in(<<"R", "C", "B", "V">>, image_type)
      has_secondary  == any_in(<<"S", "E", "C", "O", "N", "D", "A", "R", "Y">>, image_type)
      has_adc        == any_in(<<"A", "D", "C">>, image_type)
  IN  \/ ~has_primary
      \/ ~str_in(<<"P", "h", "i", "l", "i", "p", "s">>, manufacturer)
      \/ has_projection
      \/ has_RCBV
      \/ has_derived
      \/ has_secondary
      \/ has_adc
      \/ str_in(<<"R", "E", "G">>, series_desc)
      \/ str_in(<<"A", "D", "C">>, series_desc)
      \/ is_survey

\* has_burned_in_annotation
has_burned_in_annotation(dataset) ==
  LET value == IF "BurnedInAnnotation" \in DOMAIN dataset.elems
               THEN dataset.elems["BurnedInAnnotation"] ELSE <<>>
  IN  upper(value) = <<"Y", "E", "S">>

\* The image types, manufacturers, series descriptions and burned-in flags
\* of the model.
ImageTypes ==
  {<<<<"O", "R", "I", "G", "I", "N", "A", "L">>, <<"P", "R", "I", "M", "A", "R", "Y">>, <<"M", "_", "F", "F", "E">>>>,
   <<<<"O", "R", "I", "G", "I", "N", "A", "L">>, <<"P", "R", "I", "M", "A", "R", "Y">>, <<"P", "R", "O", "J", "E", "C", "T", "I", "O", "N", " ", "I", "M", "A", "G", "E">>>>,
   <<<<"O", "R", "I", "G", "I", "N", "A", "L">>, <<"P", "R", "I", "M", "A", "R", "Y">>, <<"A", "D", "C", "_", "U", "N", "S", "P", "E", "C", "I", "F", "I", "E", "D">>>>,
   <<<<"O", "R", "I", "G", "I", "N", "A", "L">>, <<"P", "R", "I", "M", "A", "R", "Y">>, <<"R", "C", "B", "V">>>>,
   <<<<"D", "E", "R", "I", "V", "E", "D">>, <<"P", "R", "I", "M", "A", "R", "Y">>, <<"M", "_", "F", "F", "E">>>>,
   <<<<"D", "E", "R", "I", "V", "E", "D">>, <<"S", "E", "C", "O", "N", "D", "A", "R", "Y">>>>,
   <<<<"O", "R", "I", "G", "I", "N", "A", "L">>, <<"P", "R", "I", "M", "A", "R", "Y">>, <<"S", "E", "C", "O", "N", "D", "A", "R", "Y">>>>,
   <<<<"O", "R", "I", "G", "I", "N", "A", "L">>>>,
   <<>>}

Manufacturers ==
  {<<"P", "h", "i", "l", "i", "p", "s">>, <<"P", "h", "i", "l", "i", "p", "s", " ", "M", "e", "d", "i", "c", "a", "l", " ", "S", "y", "s", "t", "e", "m", "s">>, <<"P", "H", "I", "L", "I", "P", "S">>, <<"S", "I", "E", "M", "E", "N", "S">>}

SeriesDescriptions ==
  {<<"T", "1", " ", "W">>, <<"s", "T", "2", "W", "_", "F", "L", "A", "I", "R">>, <<"S", "u", "r", "v", "e", "y">>, <<"s", "m", "a", "r", "t", "b", "r", "a", "i", "n">>, <<"T", "2", " ", "r", "e", "g">>, <<"d", "A", "D", "C">>, <<"D", "W", "I", "_", "I", "S", "V">>, <<"S", "C", "O", "U", "T">>}

BurnedInValues == {<<"Y", "E", "S">>, <<"y", "e", "s">>, <<"Y", "e", "s">>, <<"N", "O">>, <<"Y", "E", "S", "1">>, <<>>}

\* The objects handed to the classifier: any of the elements it reads may
\* be missing.
ClassifierObjects ==
  {[elems |-> [t \in has |->
                 CASE t = "ImageType" -> it
                   [] t = "Manufacturer" -> m
                   [] t = "SeriesDescription" -> d
                   [] t = "SeriesNumber" -> <<3>>
                   [] OTHER -> b],
    attrs |-> {}] :
     it \in ImageTypes, m \in Manufacturers, d \in SeriesDescriptions,
     b \in BurnedInValues,
     has \in SUBSET {"ImageType", "Manufacturer", "SeriesDescription",
                     "SeriesNumber", "BurnedInAnnotation"}}

NotClassified == [ran |-> FALSE, derived |-> FALSE, burned_in |-> FALSE]

\* ------------------------------------------ one object (SpecClassify)
InitClassify ==
  /\ cl_input \in ClassifierObjects
  /\ cl_output = NotClassified
  /\ PipeIdle /\ PgIdle /\ AnIdle /\ CpIdle /\ RestIdle

\* The two tests process_file makes of the object it read.
Classify ==
  /\ ~cl_output.ran
  /\ cl_output' = [ran |-> TRUE, derived |-> is_derived_image(cl_input),
                   burned_in |-> has_burned_in_annotation(cl_input)]
  /\ UNCHANGED <<cl_input, pipeVars, pgVars, anVars, cpVars, restVars>>

NextClassify == Classify

SpecClassify == InitClassify /\ [][NextClassify]_vars

Holds(tag) == tag \in DOMAIN cl_input.elems

\* any(needle in item for item in the image type of the object); no item
\* when the element is missing.
TypeHas(needle) == Holds("ImageType") /\ any_in(needle, cl_input.elems["ImageType"])

\* `needle in` the upper-cased series description of the object
DescHas(needle) ==
  Holds("SeriesDescription") /\ str_in(needle, upper(cl_input.elems["SeriesDescription"]))

VendorMarker == Holds("Manufacturer") /\ str_in(<<"P", "h", "i", "l", "i", "p", "s">>, cl_input.elems["Manufacturer"])

\* C15 (as stated): an object whose image type contains PRIMARY and neither
\* DERIVED nor SECONDARY, and whose manufacturer carries the vendor marker, is
\* kept whatever its other fields; an object whose image type contains
\* SECONDARY is derived.
C15_KeepPrimary ==
  cl_output.ran =>
     /\ (TypeHas(<<"P", "R", "I", "M", "A", "R", "Y">>) /\ ~TypeHas(<<"D", "E", "R", "I", "V", "E", "D">>) /\ ~TypeHas(<<"S", "E", "C", "O", "N", "D", "A", "R", "Y">>) /\ VendorMarker)
           => ~cl_output.derived
     /\ TypeHas(<<"S", "E", "C", "O", "N", "D", "A", "R", "Y">>) => cl_output.derived

\* The markers of a derived image besides DERIVED and SECONDARY: PROJECTION,
\* RCBV or ADC in the image type; REG, ADC, SURVEY, SURV, SMART, SCOUT or SV
\* in the upper-cased series description.
OtherMarker ==
  \/ TypeHas(<<"P", "R", "O", "J", "E", "C", "T", "I", "O", "N">>) \/ TypeHas(<<"R", "C", "B", "V">>) \/ TypeHas(<<"A", "D", "C">>)
  \/ DescHas(<<"R", "E", "G">>) \/ DescHas(<<"A", "D", "C">>) \/ DescHas(<<"S", "U", "R", "V", "E", "Y">>) \/ DescHas(<<"S", "U", "R", "V">>)
  \/ DescHas(<<"S", "M", "A", "R", "T">>) \/ DescHas(<<"S", "C", "O", "U", "T">>) \/ DescHas(<<"S", "V">>)

\* C15 (amended): such an object is kept exactly when it carries none of the
\* other markers either; an object whose image type contains SECONDARY is
\* derived.
C15_KeepPrimaryUnmarked ==
  cl_output.ran =>
     /\ (TypeHas(<<"P", "R", "I", "M", "A", "R", "Y">>) /\ ~TypeHas(<<"D", "E", "R", "I", "V", "E", "D">>) /\ ~TypeHas(<<"S", "E", "C", "O", "N", "D", "A", "R", "Y">>) /\ VendorMarker)
           => (cl_output.derived <=> OtherMarker)
     /\ TypeHas(<<"S", "E", "C", "O", "N", "D", "A", "R", "Y">>) => cl_output.derived

\* C15: a primary image of the vendor without any marker was kept.
C15_Witness ==
  /\ cl_output.ran /\ ~cl_output.derived
  /\ TypeHas(<<"P", "R", "I", "M", "A", "R", "Y">>) /\ VendorMarker /\ Holds("SeriesDescription")

\* C16 (as stated): an object without image type, manufacturer, series number
\* and series description is not derived, and an object is burned-in only
\* when its flag is a case-insensitive YES.
C16_MissingFieldsNotFlagged ==
  cl_output.ran =>
     /\ (~Holds("ImageType") /\ ~Holds("Manufacturer") /\ ~Holds("SeriesNumber")
            /\ ~Holds("SeriesDescription")) => ~cl_output.derived
     /\ cl_output.burned_in =>
           (Holds("BurnedInAnnotation") /\ upper(cl_input.elems["BurnedInAnnotation"]) = <<"Y", "E", "S">>)

\* ------------------------------- more claims on anonymize_dicom_tags
\* C17 (as stated): a call of anonymize_dicom_tags does not raise, whatever
\* fields its object lacks.
C17_MissingIdNoRaise == an_output.ran => ~an_output.raised

\* January 1 of the year of a date, 20000101 for an empty or unparsable one.
FirstOfYear(value) ==
  IF value # <<>> /\ strptime(value).ok THEN SubSeq(value, 1, 4) \o <<0, 1, 0, 1>>
  ELSE DefaultDate

\* What a date toggle does to its field: an absent field stays absent, a
\* present one holds the first of its year when the toggle is enabled and its
\* original value when not.
DateToggle(tag, enabled) ==
  IF tag \in DOMAIN an_input.elems
  THEN /\ tag \in DOMAIN an_output.dataset.elems
       /\ an_output.dataset.elems[tag] =
             IF enabled THEN FirstOfYear(an_input.elems[tag]) ELSE an_input.elems[tag]
  ELSE tag \notin DOMAIN an_output.dataset.elems

C19_StrictCategoryValues ==
  (Returned /\ an_opts.strict) =>
     LET out == an_output.dataset.elems
     IN  /\ "PatientSex" \in DOMAIN out => out["PatientSex"] = "O"
         /\ \A t \in (DOMAIN out \cap Keywords) \
                        (PreservedInModel \cup StartsWithPatient \cup EndsWithUID
                           \cup ContainsDate \cup ContainsID \cup Randomized) :
               out[t] = "ANONYMIZED"

\* C20 (as stated): after a strict call every person-related date of the
\* object other than the birth date holds the first of its original year.
C20_StrictPatientDates ==
  (Returned /\ an_opts.strict) =>
     \A t \in (DOMAIN an_input.elems \cap StartsWithPatient \cap ContainsDate)
                 \ {"PatientBirthDate"} :
        /\ t \in DOMAIN an_output.dataset.elems
        /\ an_output.dataset.elems[t] = FirstOfYear(an_input.elems[t])

\* The UIDs the strict pass leaves alone, by the words of the specification.
ExemptUids == {"StudyInstanceUID", "SeriesInstanceUID", "FrameOfReferenceUID"}

\* C21 (as stated): a strict call leaves the study, series and frame of
\* reference UIDs as they were and replaces every other UID of the object,
\* those of the items of its sequences included, by generate_dummy_uid of
\* the original; a basic call changes no UID.
C21_UidsReplaced ==
  Returned =>
     LET in  == an_input.elems
         out == an_output.dataset.elems
     IN  /\ \A t \in DOMAIN in \cap EndsWithUID :
              /\ t \in DOMAIN out
              /\ out[t] = IF an_opts.strict /\ t \notin ExemptUids
                          THEN generate_dummy_uid(in[t]) ELSE in[t]
         /\ "ReferencedImageSequence" \in DOMAIN in =>
              /\ "ReferencedImageSequence" \in DOMAIN out
              /\ \A j \in DOMAIN in["ReferencedImageSequence"] :
                   out["ReferencedImageSequence"][j].ReferencedSOPInstanceUID =
                      IF an_opts.strict
                      THEN generate_dummy_uid(in["ReferencedImageSequence"][j].ReferencedSOPInstanceUID)
                      ELSE in["ReferencedImageSequence"][j].ReferencedSOPInstanceUID

\* The top-level half of C21 alone.
TopLevelUidsReplaced ==
  Returned =>
     \A t \in DOMAIN an_input.elems \cap EndsWithUID :
        /\ t \in DOMAIN an_output.dataset.elems
        /\ an_output.dataset.elems[t] =
              IF an_opts.strict /\ t \notin ExemptUids
              THEN generate_dummy_uid(an_input.elems[t]) ELSE an_input.elems[t]

\* The UIDs a strict call replaced in the object it returned.
ReplacedUids ==
  {t \in DOMAIN an_input.elems \cap EndsWithUID :
      an_output.dataset.elems[t] # an_input.elems[t]}

\* A UID of decimal components is well-formed when no component is empty, no
\* component of several digits starts with 0, and its text has at most 64
\* characters.
WellFormedUid(uid) ==
  /\ \A j \in DOMAIN uid :
        /\ uid[j] # <<>>
        /\ Len(uid[j]) > 1 => uid[j][1] # 0
  /\ Len(StrUid(uid)) <= 64

\* C22 (as stated): every replacement UID of a strict call is well-formed, and
\* all of them start with one root, whatever the originals.
C22_ValidReplacementUid ==
  (Returned /\ an_opts.strict) =>
     /\ \A t \in ReplacedUids : WellFormedUid(an_output.dataset.elems[t])
     /\ \A t, u \in ReplacedUids :
          SubSeq(an_output.dataset.elems[t], 1, Len(an_output.dataset.elems[t]) - 1)
             = SubSeq(an_output.dataset.elems[u], 1, Len(an_output.dataset.elems[u]) - 1)

\* ------------------------------------------------- read_id_correlation
\* The longest file of the model, in lines.
MaxLines == 3

\* The characters `\s` matches, among those of the model.
whitespace == {" ", "\t", "\n"}

RECURSIVE lstrip(_)
lstrip(str) ==
  IF str # <<>> /\ Head(str) \in whitespace THEN lstrip(Tail(str)) ELSE str

\* str.strip()
strip(str) == Reverse(lstrip(Reverse(lstrip(str))))

RECURSIVE split_at(_, _, _)
\* The parts of str between the characters of seps, the part in hand last:
\* every separator ends a part, an empty one too.
split_at(str, seps, part) ==
  IF str = <<>> THEN <<part>>
  ELSE IF Head(str) \in seps THEN <<part>> \o split_at(Tail(str), seps, <<>>)
  ELSE split_at(Tail(str), seps, Append(part, Head(str)))

\* re.split(r',|\s|\t', str)
re_split(str) == split_at(str, {","} \cup whitespace, <<>>)

\* One iteration of the loop of read_id_correlation: the table and the log
\* after the line.
read_line(line, id_map, log) ==
  LET parts == re_split(strip(line))
  IN  IF Len(parts) >= 2
      THEN [id_map |-> [k \in DOMAIN id_map \cup {parts[1]} |->
                          IF k = parts[1] THEN parts[2] ELSE id_map[k]],
            log    |-> log]
      ELSE [id_map |-> id_map,
            log    |-> Append(log, <<"Invalid line format", line>>)]

\* The lines of a Correlation Table file: tab- and comma-delimited rows, a row
\* with a space after its comma, a row of one column, an empty line.
TableLines ==
  {<<"O", "L", "D", "1", "\t", "N", "E", "W", "1", "\n">>, <<"O", "L", "D", "1", ",", "N", "E", "W", "2", "\n">>, <<"O", "L", "D", "1", ",", " ", "N", "E", "W", "1", "\n">>, <<"P", "2", "\t", "N", "E", "W", "2", "\n">>, <<"P", "2", ",", "N", "E", "W", "1">>,
   <<"O", "L", "D", "1", "\n">>, <<"\n">>}

\* -------------------------------------------- reading a file (SpecTable)
InitTable ==
  /\ tb_lines \in UNION {[1..n -> TableLines] : n \in 0..MaxLines}
  /\ tb_next = 1
  /\ tb_map = <<>>
  /\ tb_log = <<>>
  /\ PipeIdle /\ PgIdle /\ AnIdle /\ CpIdle /\ ClIdle /\ BdIdle /\ DtIdle

\* `for line in file:` of read_id_correlation, one line.
ReadLine ==
  /\ tb_next <= Len(tb_lines)
  /\ LET r == read_line(tb_lines[tb_next], tb_map, tb_log)
     IN  tb_map' = r.id_map /\ tb_log' = r.log
  /\ tb_next' = tb_next + 1
  /\ UNCHANGED <<tb_lines, pipeVars, pgVars, anVars, cpVars, clVars, bdVars, dtVars>>

NextTable == ReadLine

SpecTable == InitTable /\ [][NextTable]_vars

\* read_id_correlation has returned.
TableRead == tb_next > Len(tb_lines)

\* The columns of a row, by the words of the specification: the fields
\* between tabs and commas, without the blanks around them.
Columns(line) ==
  LET fields == split_at(strip(line), {",", "\t"}, <<>>)
  IN  [j \in DOMAIN fields |-> strip(fields[j])]

\* The rows of the file with at least two columns, and those bearing a key.
Rows == {j \in DOMAIN tb_lines : Len(Columns(tb_lines[j])) >= 2}

RowsOf(key) == {j \in Rows : Columns(tb_lines[j])[1] = key}

\* C23 (as stated): the table read maps every key to the replacement of the
\* last row bearing it, a space after the delimiter put aside; the log holds
\* a warning for every row that repeats a key and one for every row of fewer
\* than two columns.
C23_TableOfLastRows ==
  TableRead =>
     /\ DOMAIN tb_map = {Columns(tb_lines[j])[1] : j \in Rows}
     /\ \A key \in DOMAIN tb_map :
          \E j \in RowsOf(key) :
             /\ \A k \in RowsOf(key) : k <= j
             /\ tb_map[key] = Columns(tb_lines[j])[2]
     /\ Len(tb_log) =
           Cardinality(DOMAIN tb_lines \ Rows)
             + Cardinality({j \in Rows : \E k \in Rows :
                               k < j /\ Columns(tb_lines[k])[1] = Columns(tb_lines[j])[1]})

\* ------------------------------------------------ decompression failure
\* C24: with decompression requested, a unit whose only failure is that of
\* dataset.decompress() is written and returns success, its result is queued
\* as a success, and no written unit is ever counted as a failure.
C24_DecompressFailureSwallowed ==
  /\ (opts.decompress /\ last_unit.events = {"decompress_error"}) =>
        /\ last_unit.written /\ last_unit.success
        /\ unit[last_unit.file] = "written"
        /\ \A j \in DOMAIN results :
             results[j].file = last_unit.file => results[j].success
        /\ cur.file = last_unit.file => cur.success
  /\ failure_count <= Cardinality({f \in aggregated : unit[f] # "written"})

\* C24, its case: a unit whose decompression failed has been written and
\* counted, and the run has counted no failure.
C24_Witness ==
  /\ opts.decompress
  /\ last_unit.events = {"decompress_error"}
  /\ last_unit.written
  /\ last_unit.file \in aggregated
  /\ success_count >= 1 /\ failure_count = 0

\* ------------------------------------------------- a sort from the GUI
\* C25 (as stated): SortingThread.run binds every parameter sort_dicom
\* requires, and a run it starts over an existing input directory and a valid
\* output directory, the flag never set, dispatches the pipeline and ends with
\* finished emitted once and error never.
C25_GuiSortFinishes ==
  (entry = "SortingThread" /\ pc = "ended" /\ input_exists /\ output_ok
     /\ ~FlagSet) =>
        /\ sort_dicom_required \subseteq SortingThread_supplied
        /\ pool # "none"
        /\ finished_emitted = 1
        /\ error_emitted = 0

\* ------------------------------------------------ where a file is written
\* The characters of the text values that are held as one token.
Chars ==
  [x \in {"OLD1", "P2", "../../P2", "fe9640bb", "5890595e", "aa2a7519"} |->
     CASE x = "OLD1" -> <<"O", "L", "D", "1">>
       [] x = "P2" -> <<"P", "2">>
       [] x = "../../P2" -> <<".", ".", "/", ".", ".", "/", "P", "2">>
       [] x = "fe9640bb" -> <<"f", "e", "9", "6", "4", "0", "b", "b">>
       [] x = "5890595e" -> <<"5", "8", "9", "0", "5", "9", "5", "e">>
       [] x = "aa2a7519" -> <<"a", "a", "2", "a", "7", "5", "1", "9">>]

\* A string of the path model, as its characters.
CharsOf(str) == IF Len(str) = 1 /\ Len(str[1]) > 1 THEN Chars[str[1]] ELSE str

\* dest_base_dir: the output root, 'out'.
dest_base_dir == <<"o", "u", "t">>

\* os.path.join(a, b) for a relative b
os_path_join(a, b) == a \o <<"/">> \o b

RECURSIVE normpath(_, _)
\* os.path.normpath over the components of a relative path: empty components
\* and '.' go, '..' takes the component before it away, and stays when there
\* is none.
normpath(parts, stack) ==
  IF parts = <<>> THEN stack
  ELSE IF Head(parts) \in {<<>>, <<".">>} THEN normpath(Tail(parts), stack)
  ELSE IF Head(parts) = <<".", ".">> /\ stack # <<>> /\ stack[Len(stack)] # <<".", ".">>
  THEN normpath(Tail(parts), SubSeq(stack, 1, Len(stack) - 1))
  ELSE normpath(Tail(parts), Append(stack, Head(parts)))

\* sanitize_filepath(path, platform='auto'): the separators and the
\* components '.' and '..' are kept, the path is normalized; no character of
\* the model's paths is invalid. The components of the result.
sanitize_filepath(path) == normpath(split_at(path, {"/"}, <<>>), <<>>)

\* The file dataset.save_as creates for a path of save_as_path, as the
\* components of its normalized path: the pattern with its placeholders
\* replaced is joined to dest_base_dir and sanitized, the file name is joined
\* to the result.
written_file(path) ==
  LET pattern == CharsOf(path[1]) \o <<"/">> \o path[2] \o <<"/">> \o path[3]
      dest_directory_ == sanitize_filepath(os_path_join(dest_base_dir, pattern))
  IN  normpath(dest_directory_ \o split_at(path[4], {"/"}, <<>>), <<>>)

\* C26 (as stated): every file written lies inside the output root, at
\* root/PatientID/StudyDate/series directory/file name, whatever the values.
C26_WrittenInsideRoot ==
  \A path \in DOMAIN cp_tree :
     written_file(path) = <<dest_base_dir, CharsOf(path[1]), path[2], path[3], path[4]>>

\* --------------------------------------------------------- Batch_dcm2bids
\* The most runs of process_sessions in a behaviour.
MaxRuns == 2

\* The subject folders and the date folders of the model, in sorted order.
Subjects == <<"sub-01", "sub-02">>

Dates == <<"20210315", "20220101">>

\* The (subject, date) folders, in the order the loops of process_sessions
\* visit them: sorted subjects, the sorted sessions of each.
FolderOrder ==
  <<<<Subjects[1], Dates[1]>>, <<Subjects[1], Dates[2]>>,
    <<Subjects[2], Dates[1]>>, <<Subjects[2], Dates[2]>>>>

\* A Python value: its type and its text.
PyStr(text) == [type |-> "str", value |-> text]

PyInt(text) == [type |-> "int", value |-> text]

PyTuple(items) == [type |-> "tuple", value |-> items]

\* a == b of Python, for values of these types
py_eq(a, b) == a.type = b.type /\ a.value = b.value

\* A cell of studies.tsv as pd.read_csv types it: the date column, all digits,
\* is read as integers, the other columns as strings.
read_csv_cell(column, text) == IF column = "date" THEN PyInt(text) ELSE PyStr(text)

\* read_existing_studies: {(row['subject'], row['date']): row['session']},
\* a later row replacing an earlier one of the same key; {} for no file.
read_existing_studies(exists, rows) ==
  IF ~exists THEN <<>>
  ELSE LET key(r) == <<read_csv_cell("subject", r.subject), read_csv_cell("date", r.date)>>
       IN  [k \in {key(rows[n]) : n \in DOMAIN rows} |->
              LET last == CHOOSE n \in DOMAIN rows :
                             /\ key(rows[n]) = k
                             /\ \A m \in DOMAIN rows : key(rows[m]) = k => m <= n
              IN  rows[last].session]

RECURSIVE int_of(_)
\* int(str) for a string of digits
int_of(str) ==
  IF str = <<>> THEN 0
  ELSE 10 * int_of(SubSeq(str, 1, Len(str) - 1))
         + (CHOOSE d \in 0..9 : DigitChar[d + 1] = str[Len(str)])

RECURSIVE str_of(_)
\* str(n) for a natural number
str_of(n) ==
  IF n < 10 THEN <<DigitChar[n + 1]>>
  ELSE str_of(n \div 10) \o <<DigitChar[(n % 10) + 1]>>

\* int(session.split('-')[1])
session_number(session) == int_of(split_at(session, {"-"}, <<>>)[2])

\* 'ses-' and the number, two digits wide
session_label(n) == <<"s", "e", "s", "-">> \o zfill(str_of(n), 2)

Max(S) == CHOOSE x \in S : \A y \in S : y <= x

\* get_next_session_number: `for subj, session in existing_sessions.items()`
\* binds subj to the key, a (subject, date) tuple, which `subj == subject`
\* compares with the subject string.
get_next_session_number(existing_sessions, subject) ==
  LET subject_sessions ==
        {session_number(existing_sessions[k]) :
           k \in {k \in DOMAIN existing_sessions : py_eq(PyTuple(k), PyStr(subject))}}
  IN  session_label(Max(subject_sessions \cup {0}) + 1)

\* The rows a studies.tsv can hold when the first run starts: none, or one
\* row of an earlier conversion.
EarlierRows ==
  {<<>>} \cup {<<[subject |-> sd[1], session |-> session_label(n), date |-> sd[2]]>> :
                 sd \in Range(FolderOrder), n \in 1..2}

InitBatch ==
  /\ bd_file_exists \in BOOLEAN
  /\ bd_rows \in (IF bd_file_exists THEN EarlierRows ELSE {<<>>})
  /\ bd_folders \in SUBSET Range(FolderOrder)
  /\ bd_pc = "idle"
  /\ bd_existing = <<>>
  /\ bd_todo = <<>>
  /\ bd_calls = <<>>
  /\ bd_runs = 0
  /\ PipeIdle /\ PgIdle /\ AnIdle /\ CpIdle /\ ClIdle /\ TbIdle /\ DtIdle

BatchRest == UNCHANGED <<pipeVars, pgVars, anVars, cpVars, clVars, tbVars, dtVars>>

\* For the properties: the sessions studies.tsv records for a folder, and the
\* highest session number recorded for a subject, in the file or by a call of
\* the run under way.
RecordedSessions(subject, date) ==
  {r.session : r \in {r \in Range(bd_rows) : r.subject = subject /\ r.date = date}}

HighestRecorded(subject) ==
  Max({0} \cup {session_number(r.session) :
                  r \in {r \in Range(bd_rows) : r.subject = subject}}
          \cup {session_number(bd_calls[n].session) :
                  n \in {n \in DOMAIN bd_calls :
                           /\ bd_calls[n].subject = subject
                           /\ n > Len(bd_calls) - (Cardinality(bd_folders) - Len(bd_todo))}})

\* A study is sorted into the input directory between two runs.
NewFolder ==
  /\ bd_pc = "idle"
  /\ \E sd \in Range(FolderOrder) \ bd_folders : bd_folders' = bd_folders \cup {sd}
  /\ UNCHANGED <<bd_file_exists, bd_rows, bd_pc, bd_existing, bd_todo, bd_calls, bd_runs>>
  /\ BatchRest

\* process_sessions up to its loops: the table is read, the header is written
\* when there is no file, the folders are listed.
process_sessions ==
  /\ bd_pc = "idle"
  /\ bd_runs < MaxRuns
  /\ bd_existing' = read_existing_studies(bd_file_exists, bd_rows)
  /\ bd_file_exists' = TRUE
  /\ LET listed(sd) == sd \in bd_folders
     IN  bd_todo' = SelectSeq(FolderOrder, listed)
  /\ bd_pc' = "running"
  /\ UNCHANGED <<bd_rows, bd_folders, bd_calls, bd_runs>>
  /\ BatchRest

\* One iteration of the inner loop: the label of the folder is looked up or
\* made and entered in existing_studies, the converter is called, and the row
\* is appended when the pair is not in existing_studies.
ProcessSession ==
  /\ bd_pc = "running"
  /\ bd_todo # <<>>
  /\ LET subject == Head(bd_todo)[1]
         date == Head(bd_todo)[2]
         key == <<PyStr(subject), PyStr(date)>>
         known == key \in DOMAIN bd_existing
         session_label_ == IF known THEN bd_existing[key]
                           ELSE get_next_session_number(bd_existing, subject)
         existing_studies == IF known THEN bd_existing
                             ELSE [k \in DOMAIN bd_existing \cup {key} |->
                                     IF k = key THEN session_label_ ELSE bd_existing[k]]
     IN  /\ bd_existing' = existing_studies
         /\ bd_calls' = Append(bd_calls,
                               [subject |-> subject, date |-> date,
                                session |-> session_label_,
                                recorded |-> RecordedSessions(subject, date),
                                highest |-> HighestRecorded(subject)])
         /\ bd_rows' = IF key \notin DOMAIN existing_studies
                       THEN Append(bd_rows, [subject |-> subject,
                                             session |-> session_label_, date |-> date])
                       ELSE bd_rows
  /\ bd_todo' = Tail(bd_todo)
  /\ UNCHANGED <<bd_file_exists, bd_folders, bd_pc, bd_runs>>
  /\ BatchRest

\* The loops are over: process_sessions returns.
ProcessSessionsReturn ==
  /\ bd_pc = "running"
  /\ bd_todo = <<>>
  /\ bd_pc' = "idle"
  /\ bd_runs' = bd_runs + 1
  /\ UNCHANGED <<bd_file_exists, bd_rows, bd_folders, bd_existing, bd_todo, bd_calls>>
  /\ BatchRest

NextBatch == NewFolder \/ process_sessions \/ ProcessSession \/ ProcessSessionsReturn

SpecBatch == InitBatch /\ [][NextBatch]_vars

\* C27 (as stated): a folder with no recorded session is converted under the
\* label one greater than the highest recorded for its subject, and no two
\* dates of a subject are ever converted under the same label.
C27_LabelsDistinct ==
  /\ \A n \in DOMAIN bd_calls :
        bd_calls[n].recorded = {} =>
           bd_calls[n].session = session_label(bd_calls[n].highest + 1)
  /\ \A n, m \in DOMAIN bd_calls :
        (bd_calls[n].subject = bd_calls[m].subject /\ bd_calls[n].date # bd_calls[m].date)
           => bd_calls[n].session # bd_calls[m].session

\* C28 (as stated): when process_sessions has returned, studies.tsv holds one
\* row for every folder converted so far, with the label the converter was
\* called with, and a folder that was recorded was converted under its
\* recorded label.
C28_OneRowPerFolder ==
  (bd_pc = "idle" /\ bd_runs >= 1) =>
     \A n \in DOMAIN bd_calls :
        /\ Cardinality({k \in DOMAIN bd_rows :
                          /\ bd_rows[k].subject = bd_calls[n].subject
                          /\ bd_rows[k].date = bd_calls[n].date}) = 1
        /\ RecordedSessions(bd_calls[n].subject, bd_calls[n].date) = {bd_calls[n].session}
        /\ bd_calls[n].recorded # {} => bd_calls[n].recorded = {bd_calls[n].session}

\* ------------------------------------------------ in-place decompression
\* What an iteration of DecompressionThread.run meets in a file: a compressed
\* object it saves decompressed, an uncompressed one, one without transfer
\* syntax, InvalidDicomError of dcmread, any other exception of dcmread or
\* save_as.
DecompressionCases ==
  {"decompressed", "uncompressed", "no_syntax", "not_dicom", "error"}

\* The state when execute_decompression has returned: the thread is started,
\* the progress dialog is shown, no signal is emitted yet.
InitDecompression ==
  /\ dt_files \in UNION {[1..n -> DecompressionCases] : n \in 0..MaxFiles}
  /\ dt_pc = "loop"
  /\ dt_processed = 0
  /\ dt_emitted = <<>>
  /\ dt_queue = <<>>
  /\ dt_dialog = "open"
  /\ dt_boxes = 0
  /\ dt_late = 0
  /\ PipeIdle /\ PgIdle /\ AnIdle /\ CpIdle /\ ClIdle /\ TbIdle /\ BdIdle

DecompressionRest ==
  UNCHANGED <<pipeVars, pgVars, anVars, cpVars, clVars, tbVars, bdVars>>

\* One iteration of the loop of DecompressionThread.run: the handler of
\* `except Exception` emits error and the iteration goes on to
\* `processed += 1` and progress.emit.
DecompressionThread_file ==
  /\ dt_pc = "loop"
  /\ dt_processed < Len(dt_files)
  /\ LET signals ==
           (IF dt_files[dt_processed + 1] = "error"
            THEN <<[signal |-> "error", value |-> 0]>> ELSE <<>>)
           \o <<[signal |-> "progress",
                 value |-> ProgressTable[Len(dt_files)][dt_processed + 1]]>>
     IN  /\ dt_emitted' = dt_emitted \o signals
         /\ dt_queue' = dt_queue \o signals
  /\ dt_processed' = dt_processed + 1
  /\ UNCHANGED <<dt_files, dt_pc, dt_dialog, dt_boxes, dt_late>>
  /\ DecompressionRest

\* The loops are over: finished.emit(), and run returns.
DecompressionThread_finish ==
  /\ dt_pc = "loop"
  /\ dt_processed = Len(dt_files)
  /\ dt_emitted' = Append(dt_emitted, [signal |-> "finished", value |-> 0])
  /\ dt_queue' = Append(dt_queue, [signal |-> "finished", value |-> 0])
  /\ dt_pc' = "done"
  /\ UNCHANGED <<dt_files, dt_processed, dt_dialog, dt_boxes, dt_late>>
  /\ DecompressionRest

\* update_progress, the slot of progress: self.progress_dialog.setValue(value),
\* an AttributeError when self.progress_dialog is None.
update_progress ==
  /\ dt_queue # <<>>
  /\ Head(dt_queue).signal = "progress"
  /\ dt_queue' = Tail(dt_queue)
  /\ dt_late' = IF dt_dialog = "none" THEN dt_late + 1 ELSE dt_late
  /\ UNCHANGED <<dt_files, dt_pc, dt_processed, dt_emitted, dt_dialog, dt_boxes>>
  /\ DecompressionRest

\* decompression_finished, the slot of finished: self.progress_dialog.close()
decompression_finished ==
  /\ dt_queue # <<>>
  /\ Head(dt_queue).signal = "finished"
  /\ dt_queue' = Tail(dt_queue)
  /\ dt_dialog' = IF dt_dialog = "none" THEN "none" ELSE "closed"
  /\ UNCHANGED <<dt_files, dt_pc, dt_processed, dt_emitted, dt_boxes, dt_late>>
  /\ DecompressionRest

\* decompression_error, the slot of error, up to its message box: the dialog
\* is closed when there is one, QMessageBox.critical opens and runs the event
\* loop, which goes on delivering signals.
decompression_error ==
  /\ dt_queue # <<>>
  /\ Head(dt_queue).signal = "error"
  /\ dt_queue' = Tail(dt_queue)
  /\ dt_dialog' = IF dt_dialog = "none" THEN "none" ELSE "closed"
  /\ dt_boxes' = dt_boxes + 1
  /\ UNCHANGED <<dt_files, dt_pc, dt_processed, dt_emitted, dt_late>>
  /\ DecompressionRest

\* The user closes the message box: decompression_error goes on to
\* `self.decomp_thread = None` and `self.progress_dialog = None`.
DismissBox ==
  /\ dt_boxes > 0
  /\ dt_boxes' = dt_boxes - 1
  /\ dt_dialog' = "none"
  /\ UNCHANGED <<dt_files, dt_pc, dt_processed, dt_emitted, dt_queue, dt_late>>
  /\ DecompressionRest

NextDecompression ==
  \/ DecompressionThread_file
  \/ DecompressionThread_finish
  \/ update_progress
  \/ decompression_finished
  \/ decompression_error
  \/ DismissBox

SpecDecompression == InitDecompression /\ [][NextDecompression]_vars

\* C29 (as stated): the thread emits neither progress nor finished after it
\* has emitted error, and update_progress is never called once
\* decompression_error has cleared the progress dialog.
C29_ErrorIsTerminal ==
  /\ \A j, k \in DOMAIN dt_emitted :
        (j < k /\ dt_emitted[j].signal = "error") =>
           dt_emitted[k].signal \notin {"progress", "finished"}
  /\ dt_late = 0

=============================================================================
